---- MODULE Spec2Model ----
(***************************************************************************)
(* paper_reader: the paper cache (paper_tools/paper_cache.py), the PDF     *)
(* fetcher and search ranker (paper_tools/arxiv_search.py), the PDF        *)
(* converter (paper_tools/pdf_converter.py), the get_paper_content tool    *)
(* (server.py) and the request log (api_logger.py), as state machines.     *)
(*                                                                         *)
(* Several specifications share the variables below; each one drives one   *)
(* component and leaves the variables of the others at their idle values:  *)
(*   SpecCache    every call of the PaperCache API, on one identifier      *)
(*   SpecEvict    the PaperCache calls that end with cleanup, on several   *)
(*                identifiers                                              *)
(*   SpecRead     PaperCache get and delete on two identifiers             *)
(*   SpecSweep    the eviction sweep with failing file removals            *)
(*   SpecFault    sweeps and deletes with failing file removals            *)
(*   SpecPaths    the PaperCache API on identifiers with "/", ":" and "_"   *)
(*   SpecFill     three papers of equal size stored at one instant         *)
(*   SpecBudget   three papers of several sizes, time passing              *)
(*   SpecLoop     one cleanup call, statement by statement, under fairness *)
(*   SpecServer   concurrent get_paper_content calls for one identifier    *)
(*   SpecVersion  get_paper_content for one paper under two identifiers   *)
(*   SpecAgain    get_paper_content called again and again by one caller   *)
(*   SpecSession  MCP sessions presenting tokens and invoking tools         *)
(*   SpecFetch    ArxivSearch.download_pdf, step by step                   *)
(*   SpecConvert  PDFConverter.convert                                     *)
(*   SpecRank     search: the provider's results ranked and truncated      *)
(*   SpecLog      APILogger: log and clear_logs                            *)
(*   SpecPage     the text and the page of one get_paper_content call      *)
(***************************************************************************)
EXTENDS Integers, Sequences, FiniteSets, TLC

VARIABLES
    clock,      \* datetime.now(), in ticks (TicksPerSecond of them in a second)
    papers,     \* the rows of table papers, in rowid order
    disk,       \* the files under pdf_dir and markdown_dir: path -> size or NoFile
    last,       \* history: the latest PaperCache call and what its cleanup removed
    pc,         \* get_paper_content: each caller's position
    req,        \* get_paper_content: each caller's paper_id
    out,        \* get_paper_content: each caller's result
    track,      \* history: the calls each caller's current or latest call has made
    fetch,      \* download_pdf: the locals of one call and the file at save_path
    conv,       \* convert: the inputs and locals of one call
    pg,         \* get_paper_content: the page arithmetic of one call
    rk,         \* search: the arguments, the provider's results and the ranking
    lg,         \* APILogger: the rows of table api_logs and its AUTOINCREMENT
    mcp_session_tokens  \* server.py: the token stored for each MCP session, in insertion order

vars == <<clock, papers, disk, last, pc, req, out, track, fetch, conv, pg, rk, lg, mcp_session_tokens>>

(***************************************************************************)
(* Bounds of the model.                                                    *)
(***************************************************************************)
\* datetime resolution: ticks per second (the source has 10^6 microseconds)
TicksPerSecond == 2
\* max_age_days, in ticks
MaxAgeTicks == 1
\* the clock stops after this many ticks past its first value
MaxTicks == 2
\* max_size_bytes, in size units
MaxSizeBytes == 5
\* the size of every downloaded PDF and of every extracted text, in size units
PdfSize == 2
MdSize == 1

\* arXiv identifiers, as sequences of characters
Ids == {<<"1">>, <<"2">>}
Titles == {"t1", "t2"}
NULL == <<>>
NoFile == -1
\* fetchone() returning None
NoRow == [arxiv_id |-> NULL, title |-> "", pdf_path |-> NULL, markdown_path |-> NULL,
          file_size |-> 0, created_at |-> 0, last_accessed |-> 0]

(***************************************************************************)
(* paper_cache.py: paths and the file system                               *)
(***************************************************************************)
\* arxiv_id.replace("/", "_").replace(":", "_")
SafeId(id) == [k \in DOMAIN id |-> IF id[k] \in {"/", ":"} THEN "_" ELSE id[k]]

get_pdf_path(id) == <<"pdf", SafeId(id)>>

get_markdown_path(id) == <<"markdown", SafeId(id)>>

DiskPaths == {get_pdf_path(i) : i \in Ids} \cup {get_markdown_path(i) : i \in Ids}

\* a file that is being written: it exists, is not yet a valid PDF and holds no text
Partial == 0

\* the size of the file a client writes at a canonical path
WrittenSize(p) == IF p[1] = "pdf" THEN PdfSize ELSE MdSize

\* os.path.exists(p)
Exists(fs, p) == p \in DOMAIN fs /\ fs[p] # NoFile

\* "if p and os.path.exists(p): file_size += os.path.getsize(p)"
SizeOf(fs, p) == IF p # NULL /\ Exists(fs, p) THEN fs[p] ELSE 0

\* the environment's faults: the paths whose os.remove raises during one call
RmFaults == {{}} \cup {{p} : p \in DiskPaths}

\* _delete_paper_files, of a set of rows' paths: each existing file is removed
\* unless os.remove raises, which is printed and swallowed
RowPaths(r) == {r.pdf_path, r.markdown_path} \ {NULL}

DeletePaperFiles(fs, paths, bad) ==
    [p \in DOMAIN fs |-> IF p \in paths /\ p \notin bad THEN NoFile ELSE fs[p]]

(***************************************************************************)
(* paper_cache.py: timestamps.  created_at and the cutoff are compared as  *)
(* the TEXT that datetime.isoformat() returns: the fixed-width date and    *)
(* time to the second, then "." and the fixed-width fraction unless the    *)
(* fraction is zero.  Characters are their code points.                    *)
(***************************************************************************)
IsoFormat(t) ==
    LET sec == t \div TicksPerSecond
        us  == t % TicksPerSecond
    IN  <<48 + (sec \div 10), 48 + (sec % 10)>>
            \o (IF us = 0 THEN <<>> ELSE <<46, 48 + us>>)

\* SQLite's comparison of two TEXT values (memcmp, the shorter first on a tie)
RECURSIVE TextLess(_, _)
TextLess(a, b) ==
    IF b = <<>> THEN FALSE
    ELSE IF a = <<>> THEN TRUE
    ELSE IF a[1] # b[1] THEN a[1] < b[1]
    ELSE TextLess(Tail(a), Tail(b))

(***************************************************************************)
(* paper_cache.py: the table                                               *)
(***************************************************************************)
RowIds(db) == {db[k].arxiv_id : k \in 1..Len(db)}

HasRow(db, id) == id \in RowIds(db)

\* SELECT * FROM papers WHERE arxiv_id = ?
RowOf(db, id) ==
    IF HasRow(db, id) THEN db[CHOOSE k \in 1..Len(db) : db[k].arxiv_id = id] ELSE NoRow

\* DELETE FROM papers WHERE arxiv_id IN ids
DeleteRows(db, ids) == SelectSeq(db, LAMBDA r : r.arxiv_id \notin ids)

\* SELECT SUM(file_size) FROM papers
RECURSIVE get_total_size(_)
get_total_size(db) ==
    IF db = <<>> THEN 0 ELSE Head(db).file_size + get_total_size(Tail(db))

\* a mutant of LargestRow: among the rows of the largest file_size, the latest
LargestRowLatest(db) ==
    CHOOSE k \in 1..Len(db) :
        /\ \A j \in 1..Len(db) : db[j].file_size <= db[k].file_size
        /\ \A j \in (k + 1)..Len(db) : db[j].file_size < db[k].file_size

\* a mutant of LargestRow: ORDER BY file_size ASC
SmallestRow(db) ==
    CHOOSE k \in 1..Len(db) :
        /\ \A j \in 1..Len(db) : db[j].file_size >= db[k].file_size
        /\ \A j \in 1..(k - 1) : db[j].file_size > db[k].file_size

\* SELECT ... ORDER BY file_size DESC LIMIT 1: SQLite returns, among the rows of the
\* largest file_size, the one of the lowest rowid
LargestRow(db) ==
    CHOOSE k \in 1..Len(db) :
        /\ \A j \in 1..Len(db) : db[j].file_size <= db[k].file_size
        /\ \A j \in 1..(k - 1) : db[j].file_size < db[k].file_size

\* a mutant of IsExpired: "<=" for "<"
IsExpiredInclusive(r, now) ==
    ~TextLess(IsoFormat(now - MaxAgeTicks), IsoFormat(r.created_at))

\* WHERE created_at < cutoff_date
IsExpired(r, now) == TextLess(IsoFormat(r.created_at), IsoFormat(now - MaxAgeTicks))

\* a mutant of AgeSweep: only the first expired row is handled
AgeSweepOne(st, now, bad) ==
    LET expired == {k \in 1..Len(st.db) : IsExpired(st.db[k], now)}
        first   == {k \in expired : \A j \in expired : k <= j}
        gone    == {st.db[k].arxiv_id : k \in first}
    IN  [db    |-> DeleteRows(st.db, gone),
         fs    |-> DeletePaperFiles(st.fs, UNION {RowPaths(st.db[k]) : k \in first}, bad),
         sized |-> <<>>]

\* a mutant of AgeSweep: a failing os.remove is raised out of the sweep, which
\* leaves the table as it was and the files of the later rows in place
AgeSweepRaising(st, now, bad) ==
    LET expired == {k \in 1..Len(st.db) : IsExpired(st.db[k], now)}
        failing == {k \in expired : \E p \in RowPaths(st.db[k]) \cap bad : Exists(st.fs, p)}
        handled == {k \in expired : \A j \in failing : k < j}
        gone    == IF failing = {} THEN {st.db[k].arxiv_id : k \in expired} ELSE {}
    IN  [db    |-> DeleteRows(st.db, gone),
         fs    |-> DeletePaperFiles(st.fs, UNION {RowPaths(st.db[k]) : k \in handled}, bad),
         sized |-> <<>>]

\* cleanup, step 1: every expired row loses its files, then the row
AgeSweep(st, now, bad) ==
    LET expired == {k \in 1..Len(st.db) : IsExpired(st.db[k], now)}
        gone    == {st.db[k].arxiv_id : k \in expired}
    IN  [db    |-> DeleteRows(st.db, gone),
         fs    |-> DeletePaperFiles(st.fs, UNION {RowPaths(st.db[k]) : k \in expired}, bad),
         sized |-> <<>>]

\* a mutant of SizeSweep: the budget taken in the wrong unit (twice as large)
RECURSIVE SizeSweepWrongUnit(_, _)
SizeSweepWrongUnit(st, bad) ==
    IF get_total_size(st.db) > 2 * MaxSizeBytes /\ st.db # <<>>
    THEN LET r == st.db[LargestRow(st.db)]
         IN  SizeSweepWrongUnit([st EXCEPT !.db = DeleteRows(st.db, {r.arxiv_id}),
                                           !.fs = DeletePaperFiles(st.fs, RowPaths(r), bad),
                                           !.sized = Append(st.sized, r.arxiv_id)], bad)
    ELSE st

\* cleanup, step 2: while get_total_size() > max_size_bytes, delete the largest row
RECURSIVE SizeSweep(_, _)
SizeSweep(st, bad) ==
    IF get_total_size(st.db) > MaxSizeBytes /\ st.db # <<>>
    THEN LET r == st.db[LargestRow(st.db)]
         IN  SizeSweep([st EXCEPT !.db = DeleteRows(st.db, {r.arxiv_id}),
                                  !.fs = DeletePaperFiles(st.fs, RowPaths(r), bad),
                                  !.sized = Append(st.sized, r.arxiv_id)], bad)
    ELSE st

\* a mutant of cleanup: the size sweep first
cleanupSizeFirst(st, now, bad) ==
    LET first == SizeSweep([db |-> st.db, fs |-> st.fs, sized |-> <<>>], bad)
    IN  [AgeSweep(first, now, bad) EXCEPT !.sized = first.sized]

\* PaperCache.cleanup
cleanup(st, now, bad) == SizeSweep(AgeSweep(st, now, bad), bad)

St(db, fs) == [db |-> db, fs |-> fs]

\* PaperCache.save, before its cleanup: INSERT OR REPLACE removes the row of the
\* same arxiv_id and inserts the new one under a fresh rowid
SaveRow(db, fs, now, id, title, pdf, md) ==
    Append(DeleteRows(db, {id}),
           [arxiv_id |-> id, title |-> title, pdf_path |-> pdf, markdown_path |-> md,
            file_size |-> SizeOf(fs, pdf) + SizeOf(fs, md),
            created_at |-> now, last_accessed |-> now])

\* PaperCache.save
save(db, fs, now, id, title, pdf, md, bad) ==
    cleanup(St(SaveRow(db, fs, now, id, title, pdf, md), fs), now, bad)

\* PaperCache.update_paths, before its cleanup: two UPDATE statements, each guarded
\* by its own argument, both writing the file_size computed from the arguments
UpdateRow(db, fs, id, pdf, md) ==
    LET size == SizeOf(fs, pdf) + SizeOf(fs, md)
    IN  [k \in 1..Len(db) |->
            IF db[k].arxiv_id # id \/ (pdf = NULL /\ md = NULL) THEN db[k]
            ELSE [db[k] EXCEPT !.pdf_path = IF pdf # NULL THEN pdf ELSE @,
                               !.markdown_path = IF md # NULL THEN md ELSE @,
                               !.file_size = size]]

\* PaperCache.update_paths
update_paths(db, fs, now, id, pdf, md, bad) ==
    cleanup(St(UpdateRow(db, fs, id, pdf, md), fs), now, bad)

\* a mutant of get: the UPDATE without its WHERE clause
getTouchingAll(db, now, id) ==
    IF HasRow(db, id)
    THEN [k \in 1..Len(db) |-> [db[k] EXCEPT !.last_accessed = now]]
    ELSE db

\* PaperCache.get: a hit bumps last_accessed
get(db, now, id) ==
    [k \in 1..Len(db) |->
        IF db[k].arxiv_id = id THEN [db[k] EXCEPT !.last_accessed = now] ELSE db[k]]

\* what PaperCache.get returns: the row read before the UPDATE, carrying the new
\* last_accessed, or None
GetReturn(db, now, id) ==
    IF HasRow(db, id) THEN [RowOf(db, id) EXCEPT !.last_accessed = now] ELSE NoRow

\* PaperCache.delete: get (which bumps), then the files, then the row
delete(db, fs, id, bad) ==
    IF HasRow(db, id)
    THEN [db |-> DeleteRows(db, {id}),
          fs |-> DeletePaperFiles(fs, RowPaths(RowOf(db, id)), bad)]
    ELSE St(db, fs)

\* PaperCache.clear_all
clear_all(db, fs, bad) ==
    [db |-> <<>>,
     fs |-> DeletePaperFiles(fs, UNION {RowPaths(db[k]) : k \in 1..Len(db)}, bad)]

(***************************************************************************)
(* Idle values of each component's variables                               *)
(***************************************************************************)
Callers == {"c1", "c2"}

NoCall == [op |-> "none", id |-> NULL, sized |-> <<>>]

CacheInit ==
    /\ clock = MaxAgeTicks
    /\ papers = <<>>
    /\ disk = [p \in DiskPaths |-> NoFile]
    /\ last = NoCall

ServerIdle ==
    /\ pc = [c \in Callers |-> "idle"]
    /\ req = [c \in Callers |-> NULL]
    /\ out = [c \in Callers |-> "none"]
    /\ track = [c \in Callers |-> <<>>]
    /\ mcp_session_tokens = <<>>

FetchIdle == fetch = [pc |-> "off"]

ConvertIdle == conv = [pc |-> "off"]

PageIdle == pg = [pc |-> "off"]

RankIdle == rk = [pc |-> "off"]

LogIdle == lg = [pc |-> "off"]

(***************************************************************************)
(* SpecCache: a client calls the PaperCache API, writes artifact files at  *)
(* the cache's canonical paths, and time passes.                           *)
(***************************************************************************)
\* the history of a call that ends with cleanup: the call, its identifier and the
\* rows its size sweep removed, in order
Call(name, id, res) == [op |-> name, id |-> id, sized |-> res.sized]

\* the history of a call without cleanup
Plain(name, id) == [NoCall EXCEPT !.op = name, !.id = id]

CTick ==
    /\ clock < MaxAgeTicks + MaxTicks
    /\ clock' = clock + 1
    /\ last' = NoCall
    /\ UNCHANGED <<papers, disk, pc, req, out, track, fetch, conv, pg, rk, lg, mcp_session_tokens>>

\* the client stores a downloaded PDF or an extracted text
CWriteFile(p) ==
    /\ disk' = [disk EXCEPT ![p] = WrittenSize(p)]
    /\ last' = NoCall
    /\ UNCHANGED <<clock, papers, pc, req, out, track, fetch, conv, pg, rk, lg, mcp_session_tokens>>

CSave(i, t, pdf, md, bad) ==
    LET res == save(papers, disk, clock, i, t, pdf, md, bad)
    IN  /\ papers' = res.db
        /\ disk' = res.fs
        /\ last' = Call("save", i, res)
        /\ UNCHANGED <<clock, pc, req, out, track, fetch, conv, pg, rk, lg, mcp_session_tokens>>

CUpdatePaths(i, pdf, md, bad) ==
    LET res == update_paths(papers, disk, clock, i, pdf, md, bad)
    IN  /\ papers' = res.db
        /\ disk' = res.fs
        /\ last' = Call("update_paths", i, res)
        /\ UNCHANGED <<clock, pc, req, out, track, fetch, conv, pg, rk, lg, mcp_session_tokens>>

CGet(i) ==
    /\ papers' = get(papers, clock, i)
    /\ last' = Plain("get", i) @@ [result |-> GetReturn(papers, clock, i)]
    /\ UNCHANGED <<clock, disk, pc, req, out, track, fetch, conv, pg, rk, lg, mcp_session_tokens>>

CDelete(i, bad) ==
    LET res == delete(papers, disk, i, bad)
    IN  /\ papers' = res.db
        /\ disk' = res.fs
        /\ last' = Plain("delete", i)
        /\ UNCHANGED <<clock, pc, req, out, track, fetch, conv, pg, rk, lg, mcp_session_tokens>>

CClearAll(bad) ==
    LET res == clear_all(papers, disk, bad)
    IN  /\ papers' = res.db
        /\ disk' = res.fs
        /\ last' = Plain("clear_all", NULL)
        /\ UNCHANGED <<clock, pc, req, out, track, fetch, conv, pg, rk, lg, mcp_session_tokens>>

CCleanup(bad) ==
    LET res == cleanup(St(papers, disk), clock, bad)
    IN  /\ papers' = res.db
        /\ disk' = res.fs
        /\ last' = Call("cleanup", NULL, res)
        /\ UNCHANGED <<clock, pc, req, out, track, fetch, conv, pg, rk, lg, mcp_session_tokens>>

InitCache == CacheInit /\ ServerIdle /\ FetchIdle /\ ConvertIdle /\ PageIdle /\ RankIdle /\ LogIdle

\* the paths of one identifier
PathsOf(i) == {get_pdf_path(i), get_markdown_path(i)}

\* SpecCache: every call of the API, on one identifier
OneId == {<<"1">>}

NextCache ==
    \/ CTick
    \/ \E i \in OneId : \E p \in PathsOf(i) : CWriteFile(p)
    \/ \E i \in OneId, t \in Titles, bad \in RmFaults :
         \E pdf \in {NULL, get_pdf_path(i)}, md \in {NULL, get_markdown_path(i)} :
            CSave(i, t, pdf, md, bad)
    \/ \E i \in OneId, bad \in RmFaults :
         \E pdf \in {NULL, get_pdf_path(i)}, md \in {NULL, get_markdown_path(i)} :
            CUpdatePaths(i, pdf, md, bad)
    \/ \E i \in OneId : CGet(i)
    \/ \E i \in OneId, bad \in RmFaults : CDelete(i, bad)
    \/ \E bad \in RmFaults : CClearAll(bad)
    \/ \E bad \in RmFaults : CCleanup(bad)

SpecCache == InitCache /\ [][NextCache]_vars

\* SpecRead: rows of several identifiers are stored with both artifacts, read
\* and deleted, an os.remove failing now and then
NextRead ==
    \/ CTick
    \/ \E p \in DiskPaths : CWriteFile(p)
    \/ \E i \in Ids : CSave(i, "t1", get_pdf_path(i), get_markdown_path(i), {})
    \/ \E i \in Ids : CGet(i)
    \/ \E i \in Ids, bad \in RmFaults : CDelete(i, bad)

SpecRead == InitCache /\ [][NextRead]_vars

\* SpecSweep: rows of several identifiers are stored with both artifacts, age,
\* and are swept by save and by cleanup, an os.remove failing now and then
NextSweep ==
    \/ CTick
    \/ \E p \in DiskPaths : CWriteFile(p)
    \/ \E i \in Ids, bad \in RmFaults :
         CSave(i, "t1", get_pdf_path(i), get_markdown_path(i), bad)
    \/ \E bad \in RmFaults : CCleanup(bad)

SpecSweep == InitCache /\ [][NextSweep]_vars

\* SpecEvict: the calls that end with cleanup, on several identifiers, every
\* os.remove succeeding
NextEvict ==
    \/ CTick
    \/ \E p \in DiskPaths : CWriteFile(p)
    \/ \E i \in Ids :
         \E pdf \in {NULL, get_pdf_path(i)}, md \in {NULL, get_markdown_path(i)} :
            CSave(i, "t1", pdf, md, {})
    \/ \E i \in Ids :
         \E pdf \in {NULL, get_pdf_path(i)}, md \in {NULL, get_markdown_path(i)} :
            CUpdatePaths(i, pdf, md, {})
    \/ CCleanup({})

SpecEvict == InitCache /\ [][NextEvict]_vars

(***************************************************************************)
(* SpecPaths: the PaperCache API on identifiers that hold the characters   *)
(* get_pdf_path and get_markdown_path replace: an old-style arXiv          *)
(* identifier with its "/", the same with "_" in its place, and an         *)
(* identifier without either.  The client stores each paper's files at     *)
(* the canonical paths, as get_paper_content does.                         *)
(***************************************************************************)
PathIds == {<<"cs", "/", "1">>, <<"cs", "_", "1">>, <<"2">>}

InitPaths ==
    /\ clock = MaxAgeTicks
    /\ papers = <<>>
    /\ disk = [p \in UNION {PathsOf(i) : i \in PathIds} |-> NoFile]
    /\ last = NoCall
    /\ ServerIdle /\ FetchIdle /\ ConvertIdle /\ PageIdle /\ RankIdle /\ LogIdle

NextPaths ==
    \/ \E i \in PathIds : \E p \in PathsOf(i) : CWriteFile(p)
    \/ \E i \in PathIds : CSave(i, "t1", get_pdf_path(i), get_markdown_path(i), {})
    \/ \E i \in PathIds : CDelete(i, {})

SpecPaths == InitPaths /\ [][NextPaths]_vars

(***************************************************************************)
(* SpecFault: rows of several identifiers are stored with both artifacts,  *)
(* age, and are swept by save and cleanup and removed by delete, while an  *)
(* os.remove fails now and then.                                           *)
(***************************************************************************)
\* the history of a call: the rows it found, and the files of the rows it removed
\* whose os.remove failed
Found(name, id, res, bad) ==
    [op |-> name, id |-> id, sized |-> res.sized, rows |-> Len(papers),
     failed |-> {p \in bad : /\ Exists(disk, p)
                             /\ \E k \in 1..Len(papers) :
                                   /\ p \in RowPaths(papers[k])
                                   /\ ~HasRow(res.db, papers[k].arxiv_id)}]

FCleanup(bad) ==
    LET res == cleanup(St(papers, disk), clock, bad)
    IN  /\ papers # <<>>
        /\ papers' = res.db
        /\ disk' = res.fs
        /\ last' = Found("cleanup", NULL, res, bad)
        /\ UNCHANGED <<clock, pc, req, out, track, fetch, conv, pg, rk, lg, mcp_session_tokens>>

FDelete(i, bad) ==
    LET res == delete(papers, disk, i, bad)
    IN  /\ papers' = res.db
        /\ disk' = res.fs
        /\ last' = Found("delete", i, [sized |-> <<>>, db |-> res.db], bad)
        /\ UNCHANGED <<clock, pc, req, out, track, fetch, conv, pg, rk, lg, mcp_session_tokens>>

NextFault ==
    \/ CTick
    \/ \E p \in DiskPaths : CWriteFile(p)
    \/ \E i \in Ids, bad \in RmFaults :
         CSave(i, "t1", get_pdf_path(i), get_markdown_path(i), bad)
    \/ \E bad \in RmFaults : FCleanup(bad)
    \/ \E i \in Ids, bad \in RmFaults : FDelete(i, bad)

SpecFault == InitCache /\ [][NextFault]_vars

(***************************************************************************)
(* SpecFill: three papers, each with a PDF of PdfSize and no text, are     *)
(* stored at one instant, in any order and by either way the API offers:   *)
(* save with the path, or save without it and update_paths afterwards.     *)
(* With PdfSize = 2 and MaxSizeBytes = 5 one size unit is 200,000 bytes:   *)
(* three files of 400,000 bytes under a budget of 1,000,000.               *)
(***************************************************************************)
FillIds == {<<"1">>, <<"2">>, <<"3">>}

\* the history of the filling: the identifiers in the order of their save, those
\* whose row has been given its path and size, and the rows the sweeps removed
NoFill == [op |-> "none", id |-> NULL, sized |-> <<>>,
           order |-> <<>>, given |-> {}, evicted |-> <<>>]

Saved(i) == \E k \in 1..Len(last.order) : last.order[k] = i

\* the PDF of a paper is downloaded to its canonical path
XWriteFile(i) ==
    /\ ~Exists(disk, get_pdf_path(i))
    /\ ~Saved(i) \/ HasRow(papers, i)
    /\ disk' = [disk EXCEPT ![get_pdf_path(i)] = PdfSize]
    /\ last' = [last EXCEPT !.op = "write", !.id = i, !.sized = <<>>]
    /\ UNCHANGED <<clock, papers, pc, req, out, track, fetch, conv, pg, rk, lg, mcp_session_tokens>>

\* save, with the path of the downloaded PDF or without a path
XSave(i, pdf) ==
    LET res == save(papers, disk, clock, i, "t1", pdf, NULL, {})
    IN  /\ ~Saved(i)
        /\ pdf # NULL => Exists(disk, pdf)
        /\ papers' = res.db
        /\ disk' = res.fs
        /\ last' = [last EXCEPT !.op = "save", !.id = i, !.sized = res.sized,
                                !.order = Append(@, i),
                                !.given = IF pdf # NULL THEN @ \cup {i} ELSE @,
                                !.evicted = @ \o res.sized]
        /\ UNCHANGED <<clock, pc, req, out, track, fetch, conv, pg, rk, lg, mcp_session_tokens>>

\* update_paths with the path of the downloaded PDF, for a row saved without it
XUpdatePaths(i) ==
    LET res == update_paths(papers, disk, clock, i, get_pdf_path(i), NULL, {})
    IN  /\ HasRow(papers, i)
        /\ i \notin last.given
        /\ Exists(disk, get_pdf_path(i))
        /\ papers' = res.db
        /\ disk' = res.fs
        /\ last' = [last EXCEPT !.op = "update_paths", !.id = i, !.sized = res.sized,
                                !.given = @ \cup {i},
                                !.evicted = @ \o res.sized]
        /\ UNCHANGED <<clock, pc, req, out, track, fetch, conv, pg, rk, lg, mcp_session_tokens>>

InitFill ==
    /\ clock = MaxAgeTicks
    /\ papers = <<>>
    /\ disk = [p \in {get_pdf_path(i) : i \in FillIds} |-> NoFile]
    /\ last = NoFill
    /\ ServerIdle /\ FetchIdle /\ ConvertIdle /\ PageIdle /\ RankIdle /\ LogIdle

NextFill ==
    \/ \E i \in FillIds : XWriteFile(i)
    \/ \E i \in FillIds : XSave(i, NULL)
    \/ \E i \in FillIds : XSave(i, get_pdf_path(i))
    \/ \E i \in FillIds : XUpdatePaths(i)

SpecFill == InitFill /\ [][NextFill]_vars

(***************************************************************************)
(* SpecBudget: three papers are stored, each once, with the paths of the   *)
(* files downloaded and extracted for it so far; time passes and cleanup   *)
(* is called.  Rows of sizes 0, 1, 2 and 3 meet under the budget of 5.      *)
(***************************************************************************)
\* a file of a paper not yet stored is written at its canonical path
YWriteFile(i, p) ==
    /\ ~Saved(i)
    /\ ~Exists(disk, p)
    /\ disk' = [disk EXCEPT ![p] = WrittenSize(p)]
    /\ last' = [last EXCEPT !.op = "write", !.id = i, !.sized = <<>>]
    /\ UNCHANGED <<clock, papers, pc, req, out, track, fetch, conv, pg, rk, lg, mcp_session_tokens>>

\* save with the paths of the files that exist
YSave(i) ==
    LET pdf == IF Exists(disk, get_pdf_path(i)) THEN get_pdf_path(i) ELSE NULL
        md  == IF Exists(disk, get_markdown_path(i)) THEN get_markdown_path(i) ELSE NULL
        res == save(papers, disk, clock, i, "t1", pdf, md, {})
    IN  /\ ~Saved(i)
        /\ papers' = res.db
        /\ disk' = res.fs
        /\ last' = [last EXCEPT !.op = "save", !.id = i, !.sized = res.sized,
                                !.order = Append(@, i),
                                !.given = IF RowPaths(RowOf(res.db, i)) # {}
                                          THEN @ \cup {i} ELSE @,
                                !.evicted = @ \o res.sized]
        /\ UNCHANGED <<clock, pc, req, out, track, fetch, conv, pg, rk, lg, mcp_session_tokens>>

YCleanup ==
    LET res == cleanup(St(papers, disk), clock, {})
    IN  /\ papers # <<>>
        /\ papers' = res.db
        /\ disk' = res.fs
        /\ last' = [last EXCEPT !.op = "cleanup", !.id = NULL, !.sized = res.sized,
                                !.evicted = @ \o res.sized]
        /\ UNCHANGED <<clock, pc, req, out, track, fetch, conv, pg, rk, lg, mcp_session_tokens>>

YTick ==
    /\ clock < MaxAgeTicks + MaxTicks
    /\ clock' = clock + 1
    /\ last' = [last EXCEPT !.op = "tick", !.id = NULL, !.sized = <<>>]
    /\ UNCHANGED <<papers, disk, pc, req, out, track, fetch, conv, pg, rk, lg, mcp_session_tokens>>

InitBudget ==
    /\ clock = MaxAgeTicks
    /\ papers = <<>>
    /\ disk = [p \in UNION {PathsOf(i) : i \in FillIds} |-> NoFile]
    /\ last = NoFill
    /\ ServerIdle /\ FetchIdle /\ ConvertIdle /\ PageIdle /\ RankIdle /\ LogIdle

NextBudget ==
    \/ \E i \in FillIds : \E p \in PathsOf(i) : YWriteFile(i, p)
    \/ \E i \in FillIds : YSave(i)
    \/ YCleanup
    \/ YTick

SpecBudget == InitBudget /\ [][NextBudget]_vars

(***************************************************************************)
(* SpecLoop: one call of cleanup, statement by statement, on the table a   *)
(* PaperCache finds at db_path.  The database file outlives the process    *)
(* and max_size_bytes is an argument of the constructor, so the table may  *)
(* hold any rows written under an earlier, larger budget.  cleanup is      *)
(* synchronous: no other call runs between two of its statements, and the  *)
(* interpreter always goes on to the next statement.                       *)
(***************************************************************************)
\* the rows an earlier process may have left: file_size as save computes it
RowSizes == {0, MdSize, PdfSize, PdfSize + MdSize}

StoredRow(i, size, at) ==
    [arxiv_id |-> i, title |-> "t1",
     pdf_path |-> IF size >= PdfSize THEN get_pdf_path(i) ELSE NULL,
     markdown_path |-> IF size \in {MdSize, PdfSize + MdSize}
                       THEN get_markdown_path(i) ELSE NULL,
     file_size |-> size, created_at |-> at, last_accessed |-> at]

StoredTables ==
    {db \in UNION {[1..n -> {StoredRow(i, size, at) :
                                i \in FillIds, size \in RowSizes, at \in {0, MaxAgeTicks}}]
                   : n \in 0..Cardinality(FillIds)} :
        \A j, k \in DOMAIN db : j # k => db[j].arxiv_id # db[k].arxiv_id}

\* the files the rows of a table point at
StoredDisk(db) ==
    [p \in UNION {PathsOf(i) : i \in FillIds} |->
        IF \E k \in DOMAIN db : p \in RowPaths(db[k]) THEN WrittenSize(p) ELSE NoFile]

NoLoop == [pc |-> "idle", start |-> <<>>, iters |-> 0]

\* a mutant of SizeStep: the files go, the DELETE is lost
SizeStepFilesOnly(st, bad) ==
    LET r == st.db[LargestRow(st.db)]
    IN  [db |-> st.db, fs |-> DeletePaperFiles(st.fs, RowPaths(r), bad)]

\* one pass of the body of the while loop
SizeStep(st, bad) ==
    LET r == st.db[LargestRow(st.db)]
    IN  [db |-> DeleteRows(st.db, {r.arxiv_id}),
         fs |-> DeletePaperFiles(st.fs, RowPaths(r), bad)]

\* cleanup is called
LBegin ==
    /\ last.pc = "idle"
    /\ last' = [pc |-> "age", start |-> papers, iters |-> 0]
    /\ UNCHANGED <<clock, papers, disk, pc, req, out, track, fetch, conv, pg, rk, lg, mcp_session_tokens>>

\* step 1, the age sweep and its commit
LAgeSweep ==
    /\ last.pc = "age"
    /\ \E bad \in SUBSET UNION {RowPaths(papers[k]) : k \in DOMAIN papers} :
          LET res == AgeSweep(St(papers, disk), clock, bad)
          IN  /\ Cardinality(bad) <= 1
              /\ papers' = res.db
              /\ disk' = res.fs
    /\ last' = [last EXCEPT !.pc = "size"]
    /\ UNCHANGED <<clock, pc, req, out, track, fetch, conv, pg, rk, lg, mcp_session_tokens>>

\* the loop's condition is true and the SELECT returns a row: one pass of the body
LSizeStep ==
    /\ last.pc = "size"
    /\ get_total_size(papers) > MaxSizeBytes
    /\ papers # <<>>
    /\ \E bad \in SUBSET RowPaths(papers[LargestRow(papers)]) :
          LET res == SizeStep(St(papers, disk), bad)
          IN  /\ papers' = res.db
              /\ disk' = res.fs
    /\ last' = [last EXCEPT !.iters = @ + 1]
    /\ UNCHANGED <<clock, pc, req, out, track, fetch, conv, pg, rk, lg, mcp_session_tokens>>

\* the loop's condition is false, or the SELECT returns no row and the loop breaks
LSizeExit ==
    /\ last.pc = "size"
    /\ get_total_size(papers) <= MaxSizeBytes \/ papers = <<>>
    /\ last' = [last EXCEPT !.pc = "done"]
    /\ UNCHANGED <<clock, papers, disk, pc, req, out, track, fetch, conv, pg, rk, lg, mcp_session_tokens>>

InitLoop ==
    /\ clock = MaxAgeTicks + 1
    /\ papers \in StoredTables
    /\ disk = StoredDisk(papers)
    /\ last = NoLoop
    /\ ServerIdle /\ FetchIdle /\ ConvertIdle /\ PageIdle /\ RankIdle /\ LogIdle

NextLoop == LBegin \/ LAgeSweep \/ LSizeStep \/ LSizeExit

SpecLoop == InitLoop /\ [][NextLoop]_vars /\ WF_vars(NextLoop)

(***************************************************************************)
(* SpecServer: server.py, get_paper_content called by concurrent callers   *)
(* for one identifier, and search_papers.                                  *)
(* Nothing in get_paper_content, PaperCache, ArxivSearch or PDFConverter   *)
(* takes a lock or keeps a registry of calls in flight, so the steps of    *)
(* two calls interleave at every call into the cache, the provider and the *)
(* file system.  download_pdf and convert appear here by their outcomes;   *)
(* SpecFetch and SpecConvert model them step by step.                      *)
(***************************************************************************)
\* _verify_pdf of a file of this model: only a completely downloaded one passes
ValidPdf(fs, p) == Exists(fs, p) /\ fs[p] = PdfSize

\* server.py 276: "cached and cached.markdown_path and os.path.exists(...)", and
\* 290: "if not content", the text read from the file being non-empty
CacheHit(db, fs, id) ==
    /\ HasRow(db, id)
    /\ RowOf(db, id).markdown_path # NULL
    /\ Exists(fs, RowOf(db, id).markdown_path)
    /\ fs[RowOf(db, id).markdown_path] # Partial

\* the call returns: the caller holds the result and may call again
Finish(c, result) ==
    /\ pc' = [pc EXCEPT ![c] = "idle"]
    /\ out' = [out EXCEPT ![c] = result]

Goto(c, where) ==
    /\ pc' = [pc EXCEPT ![c] = where]
    /\ out' = [out EXCEPT ![c] = "none"]

\* the history of the call: the calls it has made so far, in order
Did(c, calls) == track' = [track EXCEPT ![c] = @ \o calls]

\* the outcomes of verify_mcp_token: True, False, or an exception of the token store
AuthOutcomes == {"valid", "invalid", "raises"}

\* a mutant of GStart: the cache is looked up before the token is checked
GStartLookupFirst(c, i, auth) ==
    /\ pc[c] = "idle"
    /\ req' = [req EXCEPT ![c] = i]
    /\ papers' = get(papers, clock, i)
    /\ last' = Plain("get", i)
    /\ IF auth # "valid"
       THEN /\ Finish(c, IF auth = "raises" THEN "raised" ELSE "auth_failed")
            /\ track' = [track EXCEPT ![c] = <<"get", "verify_mcp_token">>]
       ELSE IF CacheHit(papers, disk, i)
       THEN /\ Finish(c, "cache")
            /\ track' = [track EXCEPT ![c] = <<"get", "verify_mcp_token", "paginate">>]
       ELSE /\ Goto(c, "lookup")
            /\ track' = [track EXCEPT ![c] = <<"get", "verify_mcp_token">>]
    /\ UNCHANGED <<clock, disk, fetch, conv, pg, rk, lg, mcp_session_tokens>>

\* lines 258-290: the token check, which is outside the try block, then
\* paper_cache.get and the read of the cached text
GStart(c, i, auth) ==
    /\ pc[c] = "idle"
    /\ req' = [req EXCEPT ![c] = i]
    /\ IF auth = "raises"
       THEN /\ Finish(c, "raised")
            /\ track' = [track EXCEPT ![c] = <<"verify_mcp_token">>]
            /\ UNCHANGED <<papers, last>>
       ELSE IF auth = "invalid"
       THEN /\ Finish(c, "auth_failed")
            /\ track' = [track EXCEPT ![c] = <<"verify_mcp_token">>]
            /\ UNCHANGED <<papers, last>>
       ELSE /\ papers' = get(papers, clock, i)
            /\ last' = Plain("get", i)
            /\ IF CacheHit(papers, disk, i)
               THEN /\ Finish(c, "cache")
                    /\ track' = [track EXCEPT ![c] = <<"verify_mcp_token", "get", "paginate">>]
               ELSE /\ Goto(c, "lookup")
                    /\ track' = [track EXCEPT ![c] = <<"verify_mcp_token", "get">>]
    /\ UNCHANGED <<clock, disk, fetch, conv, pg, rk, lg, mcp_session_tokens>>

\* a mutant of GLookup: a row is stored for a paper the provider does not know
GLookupSaving(c, found) ==
    /\ pc[c] = "lookup"
    /\ IF found THEN Goto(c, "save") ELSE Finish(c, "not_found")
    /\ Did(c, <<"get_paper">>)
    /\ papers' = IF found THEN papers
                 ELSE SaveRow(papers, disk, clock, req[c], "t1", NULL, NULL)
    /\ UNCHANGED <<clock, disk, last, req, fetch, conv, pg, rk, lg, mcp_session_tokens>>

\* lines 292-294: arxiv_search.get_paper
GLookup(c, found) ==
    /\ pc[c] = "lookup"
    /\ IF found THEN Goto(c, "save") ELSE Finish(c, "not_found")
    /\ Did(c, <<"get_paper">>)
    /\ UNCHANGED <<clock, papers, disk, last, req, fetch, conv, pg, rk, lg, mcp_session_tokens>>

\* lines 303-309: paper_cache.save with the metadata and no path
GSave(c, t) ==
    LET res == save(papers, disk, clock, req[c], t, NULL, NULL, {})
    IN  /\ pc[c] = "save"
        /\ papers' = res.db
        /\ disk' = res.fs
        /\ last' = Call("save", req[c], res)
        /\ Goto(c, "download")
        /\ Did(c, <<"save">>)
        /\ UNCHANGED <<clock, req, fetch, conv, pg, rk, lg, mcp_session_tokens>>

\* lines 312-315, download_pdf 239-254: a valid file at save_path is success at once;
\* an invalid one is removed; then the download writes the file
GDownloadBegin(c) ==
    LET p == get_pdf_path(req[c])
    IN  /\ pc[c] = "download"
        /\ IF ValidPdf(disk, p)
           THEN Goto(c, "convert") /\ UNCHANGED disk
           ELSE Goto(c, "downloading") /\ disk' = [disk EXCEPT ![p] = Partial]
        /\ Did(c, <<"download_pdf">>)
        /\ UNCHANGED <<clock, papers, last, req, fetch, conv, pg, rk, lg, mcp_session_tokens>>

\* download_pdf 254-276 and server.py 316-324: the download ends with a verified file,
\* or every attempt failed and the partial file is removed
GDownloadEnd(c, ok) ==
    LET p == get_pdf_path(req[c])
    IN  /\ pc[c] = "downloading"
        /\ IF ok
           THEN Goto(c, "convert") /\ disk' = [disk EXCEPT ![p] = PdfSize]
           ELSE Finish(c, "fetch_failed") /\ disk' = [disk EXCEPT ![p] = NoFile]
        /\ UNCHANGED <<clock, papers, last, req, track, fetch, conv, pg, rk, lg, mcp_session_tokens>>

\* lines 327-330, convert 51-87: the PDF is read; a missing or short file, or text no
\* engine can extract, raises, which line 393 turns into an error text
GConvertBegin(c) ==
    /\ pc[c] = "convert"
    /\ IF ValidPdf(disk, get_pdf_path(req[c]))
       THEN Goto(c, "converting")
       ELSE Finish(c, "error")
    /\ Did(c, <<"convert">>)
    /\ UNCHANGED <<clock, papers, disk, last, req, fetch, conv, pg, rk, lg, mcp_session_tokens>>

\* convert 83-92: the text is accepted and open(output_path, "w") leaves an empty
\* file at the markdown path, or the text is refused and convert raises
GConvertEnd(c, ok) ==
    /\ pc[c] = "converting"
    /\ IF ok
       THEN /\ Goto(c, "writing")
            /\ disk' = [disk EXCEPT ![get_markdown_path(req[c])] = Partial]
       ELSE Finish(c, "error") /\ UNCHANGED disk
    /\ UNCHANGED <<clock, papers, last, req, track, fetch, conv, pg, rk, lg, mcp_session_tokens>>

\* convert 93-95: the text is written and the file closed
GWriteEnd(c) ==
    /\ pc[c] = "writing"
    /\ Goto(c, "update")
    /\ disk' = [disk EXCEPT ![get_markdown_path(req[c])] = MdSize]
    /\ UNCHANGED <<clock, papers, last, req, track, fetch, conv, pg, rk, lg, mcp_session_tokens>>

\* line 333: paper_cache.update_paths with both paths, then the page is returned
GUpdatePaths(c) ==
    LET res == update_paths(papers, disk, clock, req[c],
                            get_pdf_path(req[c]), get_markdown_path(req[c]), {})
    IN  /\ pc[c] = "update"
        /\ papers' = res.db
        /\ disk' = res.fs
        /\ last' = Call("update_paths", req[c], res)
        /\ Finish(c, "fresh")
        /\ Did(c, <<"update_paths", "paginate">>)
        /\ UNCHANGED <<clock, req, fetch, conv, pg, rk, lg, mcp_session_tokens>>

\* search_papers, lines 156-226: the token check, outside the try block, then
\* arxiv_search.search, whose exceptions line 225 turns into an error text
GSearch(c, auth, result) ==
    /\ pc[c] = "idle"
    /\ req' = [req EXCEPT ![c] = NULL]
    /\ IF auth = "raises"
       THEN Finish(c, "raised") /\ track' = [track EXCEPT ![c] = <<"verify_mcp_token">>]
       ELSE IF auth = "invalid"
       THEN Finish(c, "auth_failed") /\ track' = [track EXCEPT ![c] = <<"verify_mcp_token">>]
       ELSE Finish(c, result) /\ track' = [track EXCEPT ![c] = <<"verify_mcp_token", "search">>]
    /\ UNCHANGED <<clock, papers, disk, last, fetch, conv, pg, rk, lg, mcp_session_tokens>>

STick ==
    /\ clock < MaxAgeTicks + MaxTicks
    /\ clock' = clock + 1
    /\ UNCHANGED <<papers, disk, last, pc, req, out, track, fetch, conv, pg, rk, lg, mcp_session_tokens>>

InitServer == CacheInit /\ ServerIdle /\ FetchIdle /\ ConvertIdle /\ PageIdle /\ RankIdle /\ LogIdle

NextServer ==
    \/ STick
    \/ \E c \in Callers, i \in OneId, auth \in AuthOutcomes : GStart(c, i, auth)
    \/ \E c \in Callers, auth \in AuthOutcomes, result \in {"found", "search_failed"} :
         GSearch(c, auth, result)
    \/ \E c \in Callers, found \in BOOLEAN : GLookup(c, found)
    \/ \E c \in Callers : GSave(c, "t1")
    \/ \E c \in Callers : GDownloadBegin(c)
    \/ \E c \in Callers, ok \in BOOLEAN : GDownloadEnd(c, ok)
    \/ \E c \in Callers : GConvertBegin(c)
    \/ \E c \in Callers, ok \in BOOLEAN : GConvertEnd(c, ok)
    \/ \E c \in Callers : GWriteEnd(c)
    \/ \E c \in Callers : GUpdatePaths(c)

SpecServer == InitServer /\ [][NextServer]_vars

\* SpecVersion: one caller asks for one paper again and again, by its bare
\* identifier or with a version suffix
VersionIds == {<<"1">>, <<"1", "v", "2">>}

\* arxiv_search.py 207-209: paper_id.rsplit("v", 1)[0] when "v" is in paper_id
StripVersion(id) ==
    LET vs == {k \in DOMAIN id : id[k] = "v"}
    IN  IF vs = {} THEN id
        ELSE SubSeq(id, 1, (CHOOSE k \in vs : \A j \in vs : j <= k) - 1)

InitVersion ==
    /\ clock = MaxAgeTicks
    /\ papers = <<>>
    /\ disk = [p \in UNION {PathsOf(i) : i \in VersionIds} |-> NoFile]
    /\ last = NoCall
    /\ ServerIdle /\ FetchIdle /\ ConvertIdle /\ PageIdle /\ RankIdle /\ LogIdle

NextVersion ==
    \/ \E i \in VersionIds : GStart("c1", i, "valid")
    \/ \E found \in BOOLEAN : GLookup("c1", found)
    \/ GSave("c1", "t1")
    \/ GDownloadBegin("c1")
    \/ \E ok \in BOOLEAN : GDownloadEnd("c1", ok)
    \/ GConvertBegin("c1")
    \/ \E ok \in BOOLEAN : GConvertEnd("c1", ok)
    \/ GWriteEnd("c1")
    \/ GUpdatePaths("c1")

SpecVersion == InitVersion /\ [][NextVersion]_vars

(***************************************************************************)
(* SpecAgain: one caller calls get_paper_content for one paper after the   *)
(* other, each call running to its end before the next.  The provider      *)
(* serves PDFs of two sizes.  No time passes.                              *)
(***************************************************************************)
\* the sizes of the PDFs the provider serves
PdfSizes == {PdfSize, PdfSize + 1}

\* _verify_pdf of a file left by a finished call: every such file is complete
VerifiedPdf(fs, p) == Exists(fs, p) /\ fs[p] # Partial

NoContent == [op |-> "none", id |-> NULL, result |-> "none", calls |-> <<>>, sized |-> <<>>]

Content(i, result, calls, sized) ==
    [op |-> "get_paper_content", id |-> i, result |-> result, calls |-> calls,
     sized |-> sized]

\* get_paper_content with a valid token, lines 262-394.  found: the provider knows
\* the paper; got: the size of the PDF the download leaves, NoFile when every
\* attempt failed; text: convert accepts the text it extracts
AGetContent(i, found, got, text) ==
    LET pdf   == get_pdf_path(i)
        md    == get_markdown_path(i)
        db0   == get(papers, clock, i)
        saved == save(db0, disk, clock, i, "t1", NULL, NULL, {})
        had   == VerifiedPdf(saved.fs, pdf)
        fs1   == IF had THEN saved.fs ELSE [saved.fs EXCEPT ![pdf] = got]
        fs2   == [fs1 EXCEPT ![md] = MdSize]
        upd   == update_paths(saved.db, fs2, clock, i, pdf, md, {})
    IN  /\ UNCHANGED <<clock, pc, req, out, track, fetch, conv, pg, rk, lg, mcp_session_tokens>>
        /\ IF CacheHit(papers, disk, i)
           THEN /\ papers' = db0
                /\ disk' = disk
                /\ last' = Content(i, "cache", <<"get">>, <<>>)
           ELSE IF ~found
           THEN /\ papers' = db0
                /\ disk' = disk
                /\ last' = Content(i, "not_found", <<"get", "get_paper">>, <<>>)
           ELSE IF ~VerifiedPdf(fs1, pdf)
           THEN /\ papers' = saved.db
                /\ disk' = fs1
                /\ last' = Content(i, "fetch_failed",
                                   <<"get", "get_paper", "save", "download_pdf">>, saved.sized)
           ELSE IF ~text
           THEN /\ papers' = saved.db
                /\ disk' = fs1
                /\ last' = Content(i, "error",
                                   <<"get", "get_paper", "save", "download_pdf", "convert">>,
                                   saved.sized)
           ELSE /\ papers' = upd.db
                /\ disk' = upd.fs
                /\ last' = Content(i, "fresh",
                                   <<"get", "get_paper", "save", "download_pdf", "convert",
                                     "update_paths">>,
                                   saved.sized \o upd.sized)

InitAgain ==
    /\ clock = MaxAgeTicks
    /\ papers = <<>>
    /\ disk = [p \in UNION {PathsOf(i) : i \in FillIds} |-> NoFile]
    /\ last = NoContent
    /\ ServerIdle /\ FetchIdle /\ ConvertIdle /\ PageIdle /\ RankIdle /\ LogIdle

NextAgain ==
    \E i \in FillIds, found \in BOOLEAN, got \in PdfSizes \cup {NoFile}, text \in BOOLEAN :
        AGetContent(i, found, got, text)

SpecAgain == InitAgain /\ [][NextAgain]_vars

(***************************************************************************)
(* SpecSession: server.py, the MCP route and the token check of the tools. *)
(* Each caller is one MCP session.  handle_mcp stores the bearer token of  *)
(* the request under the session and awaits the session manager, which     *)
(* runs the tool; the tool asks get_current_session_token for the token to *)
(* verify.  Requests of other sessions may be handled during the await.    *)
(***************************************************************************)
\* what a request presents: no Authorization header, or "Bearer " and a token the
\* token store accepts or refuses
Credentials == {"none", "good", "bad"}

\* mcp_session_tokens[client_id] = token: a new key goes last, a known key keeps
\* its place
PutToken(tokens, c, t) ==
    IF \E k \in 1..Len(tokens) : tokens[k].client = c
    THEN [k \in 1..Len(tokens) |->
             IF tokens[k].client = c THEN [client |-> c, token |-> t] ELSE tokens[k]]
    ELSE Append(tokens, [client |-> c, token |-> t])

\* mcp_session_tokens.get(client_id): the token stored for one session
SessionToken(tokens, c) ==
    IF \E k \in 1..Len(tokens) : tokens[k].client = c
    THEN tokens[CHOOSE k \in 1..Len(tokens) : tokens[k].client = c].token
    ELSE "none"

\* get_current_session_token: the value stored last, "" for an empty dict
get_current_session_token(tokens) ==
    IF Len(tokens) = 1 THEN tokens[1].token
    ELSE IF tokens # <<>> THEN tokens[Len(tokens)].token
    ELSE "none"

\* verify_mcp_token: an empty token is refused, any other goes to the token store
verify_mcp_token(token) == token # "none" /\ token = "good"

\* handle_mcp, lines 963-973, up to the await
HRequest(c, h) ==
    /\ pc[c] = "idle"
    /\ mcp_session_tokens' = IF h # "none" THEN PutToken(mcp_session_tokens, c, h)
                             ELSE mcp_session_tokens
    /\ pc' = [pc EXCEPT ![c] = "mcp"]
    /\ req' = [req EXCEPT ![c] = h]
    /\ out' = [out EXCEPT ![c] = "none"]
    /\ UNCHANGED <<clock, papers, disk, last, track, fetch, conv, pg, rk, lg>>

\* the tool the request invokes, lines 156-158 and 258-260: the token check
HTool(c) ==
    /\ pc[c] = "mcp"
    /\ pc' = [pc EXCEPT ![c] = "idle"]
    /\ out' = [out EXCEPT ![c] =
                  IF verify_mcp_token(get_current_session_token(mcp_session_tokens))
                  THEN "authorized" ELSE "auth_failed"]
    /\ UNCHANGED <<clock, papers, disk, last, req, track, fetch, conv, pg, rk, lg,
                   mcp_session_tokens>>

InitSession ==
    /\ CacheInit /\ ServerIdle /\ FetchIdle /\ ConvertIdle /\ PageIdle /\ RankIdle /\ LogIdle

NextSession ==
    \/ \E c \in Callers, h \in Credentials : HRequest(c, h)
    \/ \E c \in Callers : HTool(c)

SpecSession == InitSession /\ [][NextSession]_vars

(***************************************************************************)
(* SpecFetch: arxiv_search.py, ArxivSearch.download_pdf(arxiv_id,          *)
(* save_path, max_retries), one call, step by step.  The file at save_path *)
(* is a record: whether it exists, its size in bytes, whether it starts    *)
(* with %PDF, whether %%EOF is in its last 128 bytes, and whether this     *)
(* call wrote it.  The provider answers an id_list of one identifier with  *)
(* one paper or none.  Any os.remove may raise.                            *)
(***************************************************************************)
\* the largest max_retries a call is made with (the default, which the server uses)
MaxRetries == 3
\* _verify_pdf: "if file_size < 10000"
MinPdfBytes == 10000

Absent == [exists |-> FALSE, size |-> 0, head |-> FALSE, eof |-> FALSE, fresh |-> FALSE]

File(size, head, eof, fresh) ==
    [exists |-> TRUE, size |-> size, head |-> head, eof |-> eof, fresh |-> fresh]

\* what may lie at save_path when the call starts
StaleFiles ==
    {Absent, File(20000, TRUE, TRUE, FALSE), File(10000, TRUE, TRUE, FALSE),
     File(5000, TRUE, TRUE, FALSE), File(9999, TRUE, TRUE, FALSE),
     File(20000, FALSE, TRUE, FALSE), File(20000, TRUE, FALSE, FALSE)}

\* what paper.download_pdf may leave when it returns
DownloadedFiles ==
    {File(20000, TRUE, TRUE, TRUE), File(5000, TRUE, TRUE, TRUE),
     File(20000, TRUE, FALSE, TRUE), File(20000, FALSE, TRUE, TRUE)}

\* what paper.download_pdf may leave when it raises
BrokenFiles == {Absent, File(5000, TRUE, FALSE, TRUE)}

\* _verify_pdf
VerifyPdf(f) == f.exists /\ f.size >= MinPdfBytes /\ f.head /\ f.eof

\* a mutant of WaitTime: the attempt number counted from zero
WaitTimeFromZero(attempt) == attempt * 2

\* "wait_time = (attempt + 1) * 2"
WaitTime(attempt) == (attempt + 1) * 2

Raised(fr) == [fr EXCEPT !.pc = "done", !.result = "raised"]

Returned(fr, value) == [fr EXCEPT !.pc = "done", !.result = value]

\* a mutant of Entry: any existing file is taken for a finished download
EntryTrusting(fr, rmOk) ==
    IF fr.file.exists THEN Returned(fr, "true") ELSE [fr EXCEPT !.pc = "loop"]

\* lines 240-245: an existing file is verified; a bad one is removed, a good one is
\* the result
Entry(fr, rmOk) ==
    IF fr.file.exists
    THEN IF ~VerifyPdf(fr.file)
         THEN IF rmOk THEN [fr EXCEPT !.pc = "loop", !.file = Absent] ELSE Raised(fr)
         ELSE Returned(fr, "true")
    ELSE [fr EXCEPT !.pc = "loop"]

\* lines 250-254: one pass of the try block up to the end of paper.download_pdf.
\* how: "results_raise" (client.results raises), "no_result" (it yields nothing),
\* "download_raise" (download_pdf raises, leaving f), "downloaded" (it returns, f written)
Try(fr, how, f) ==
    [fr EXCEPT !.pc = "check",
               !.how = how,
               !.tries = @ + 1,
               !.dirty = @ \/ fr.file.exists,
               !.downloads = IF how \in {"download_raise", "downloaded"} THEN @ + 1 ELSE @,
               !.file = IF how \in {"download_raise", "downloaded"} THEN f ELSE @]

\* a mutant of Check: a failed pass leaves its file where it is
CheckKeeping(fr, rmOk1, rmOk2) ==
    IF fr.how = "downloaded" /\ VerifyPdf(fr.file) THEN Returned(fr, "true")
    ELSE [fr EXCEPT !.pc = "backoff", !.failed = @ + 1]

\* lines 256-268: the verification and the removal of a failed download.  A removal
\* that raises at line 263 is caught at line 265, and line 268 removes again
Check(fr, rmOk1, rmOk2) ==
    LET failedPass(file) == [fr EXCEPT !.pc = "backoff", !.file = file, !.failed = @ + 1]
    IN  IF fr.how = "downloaded"
        THEN IF VerifyPdf(fr.file) THEN Returned(fr, "true")
             ELSE IF ~fr.file.exists \/ rmOk1 THEN failedPass(Absent)
             ELSE IF rmOk2 THEN failedPass(Absent)
             ELSE Raised(fr)
        ELSE IF fr.how \in {"results_raise", "download_raise"}
        THEN IF ~fr.file.exists \/ rmOk1 THEN failedPass(Absent) ELSE Raised(fr)
        ELSE failedPass(fr.file)

\* lines 271-276: the wait before the next pass, or the end of the loop
Backoff(fr) ==
    IF fr.attempt < fr.max_retries - 1
    THEN [fr EXCEPT !.pc = "loop", !.attempt = @ + 1,
                    !.sleeps = Append(@, WaitTime(fr.attempt))]
    ELSE Returned([fr EXCEPT !.attempt = @ + 1], "false")

FEntry(rmOk) ==
    /\ fetch.pc = "entry"
    /\ fetch' = Entry(fetch, rmOk)
    /\ UNCHANGED <<clock, papers, disk, last, pc, req, out, track, conv, pg, rk, lg, mcp_session_tokens>>

FTry(how, f) ==
    /\ fetch.pc = "loop"
    /\ fetch' = Try(fetch, how, f)
    /\ UNCHANGED <<clock, papers, disk, last, pc, req, out, track, conv, pg, rk, lg, mcp_session_tokens>>

FCheck(rmOk1, rmOk2) ==
    /\ fetch.pc = "check"
    /\ fetch' = Check(fetch, rmOk1, rmOk2)
    /\ UNCHANGED <<clock, papers, disk, last, pc, req, out, track, conv, pg, rk, lg, mcp_session_tokens>>

FBackoff ==
    /\ fetch.pc = "backoff"
    /\ fetch' = Backoff(fetch)
    /\ UNCHANGED <<clock, papers, disk, last, pc, req, out, track, conv, pg, rk, lg, mcp_session_tokens>>

InitFetch ==
    /\ CacheInit /\ ServerIdle /\ ConvertIdle /\ PageIdle /\ RankIdle /\ LogIdle
    /\ \E f \in StaleFiles, n \in 1..MaxRetries :
         fetch = [pc |-> "entry", file |-> f, stale |-> f, max_retries |-> n,
                  attempt |-> 0, tries |-> 0, downloads |-> 0, failed |-> 0,
                  how |-> "none", dirty |-> FALSE, sleeps |-> <<>>, result |-> "none"]

NextFetch ==
    \/ \E rmOk \in BOOLEAN : FEntry(rmOk)
    \/ \E how \in {"results_raise", "no_result"} : FTry(how, Absent)
    \/ \E f \in BrokenFiles : FTry("download_raise", f)
    \/ \E f \in DownloadedFiles : FTry("downloaded", f)
    \/ \E rmOk1, rmOk2 \in BOOLEAN : FCheck(rmOk1, rmOk2)
    \/ FBackoff

SpecFetch == InitFetch /\ [][NextFetch]_vars

(***************************************************************************)
(* SpecConvert: pdf_converter.py, PDFConverter.convert(pdf_path,           *)
(* output_path), one call, step by step.  A text is three lengths: its     *)
(* leading whitespace, its body (what strip() keeps) and its trailing      *)
(* whitespace.  A document is the sequence of its pages' texts.            *)
(***************************************************************************)
\* convert: "if file_size < 1000"
MinSourceBytes == 1000
\* convert: "len(markdown_content.strip()) < 50"
MinTextChars == 50
\* the length of "## Page n\n\n" for a one-digit n, and of "\n\n---\n\n"
PageHeadChars == 11
PageSepChars == 7

Text(lead, body, trail) == [lead |-> lead, body |-> body, trail |-> trail]

\* None and the empty string
NoText == Text(0, 0, 0)

\* len(s)
Chars(t) == t.lead + t.body + t.trail

\* len(s.strip())
StripLen(t) == t.body

\* the truth value of a string or None
Truthy(t) == Chars(t) > 0

\* what markitdown's result.text_content may be
PrimaryTexts ==
    {NoText, Text(1, 0, 1), Text(0, 40, 1), Text(0, 49, 0), Text(0, 50, 0),
     Text(1, 60, 0), Text(0, 100, 0), Text(0, 101, 0)}

\* the pages pymupdf may read
Docs ==
    {<<>>, <<Text(0, 0, 1)>>, <<Text(0, 20, 1)>>, <<Text(0, 60, 1)>>,
     <<Text(1, 20, 0), Text(0, 0, 2), Text(0, 30, 1)>>}

SourceFiles ==
    {[exists |-> FALSE, size |-> 0], [exists |-> TRUE, size |-> 999],
     [exists |-> TRUE, size |-> 1000]}

\* _convert_with_pymupdf: the pages whose text is not blank, each under its heading,
\* joined by a rule
ConvertWithPymupdf(doc) ==
    LET kept == SelectSeq(doc, LAMBDA t : StripLen(t) > 0)
        RECURSIVE Sum(_)
        Sum(k) == IF k = 0 THEN 0 ELSE Sum(k - 1) + PageHeadChars + Chars(kept[k])
        n == Len(kept)
    IN  IF n = 0 THEN NoText
        ELSE Text(0, Sum(n) + PageSepChars * (n - 1) - kept[n].trail, kept[n].trail)

\* the exception a call ends with: its kind and, for the failure of line 84, what
\* follows "原始错误:", str(e) of markitdown's exception or the stock phrase
NoError == [kind |-> "none", original |-> "none"]

ConvRaised(cv, kind, original) ==
    [cv EXCEPT !.pc = "done", !.result = "raised",
               !.error = [kind |-> kind, original |-> original]]

\* lines 51-60
Precheck(cv) ==
    IF ~cv.pdf.exists THEN ConvRaised(cv, "file_not_found", "none")
    ELSE IF cv.pdf.size < MinSourceBytes THEN ConvRaised(cv, "file_damaged", "none")
    ELSE [cv EXCEPT !.pc = "primary"]

\* lines 63-71: markitdown, when it was imported.  Its text is kept whatever its
\* length; line 67 only decides a message
Primary(cv, raises, text) ==
    IF ~cv.markitdown THEN [cv EXCEPT !.pc = "fallback"]
    ELSE IF raises THEN [cv EXCEPT !.pc = "fallback", !.ran_primary = TRUE,
                                   !.primary_raised = TRUE, !.error_msg = TRUE]
    ELSE [cv EXCEPT !.pc = "fallback", !.ran_primary = TRUE, !.primary = text,
                    !.content = text]

\* lines 74-80: pymupdf, when it was imported and nothing came of markitdown
Fallback(cv, raises, doc) ==
    IF ~Truthy(cv.content) /\ cv.pymupdf
    THEN [cv EXCEPT !.pc = "final", !.tried_fallback = TRUE,
                    !.content = IF raises THEN @ ELSE ConvertWithPymupdf(doc)]
    ELSE [cv EXCEPT !.pc = "final"]

\* what may be at output_path when convert is called: no file, or an earlier text
OutputFiles == {NoText, Text(0, 70, 1)}

\* a mutant of Final: the file is written before the text is judged
FinalWritingFirst(cv) ==
    LET wrote == [cv EXCEPT !.written = cv.output_path,
                            !.out_file = IF cv.output_path THEN cv.content ELSE @]
    IN  IF ~Truthy(cv.content) \/ StripLen(cv.content) < MinTextChars
        THEN ConvRaised(wrote, "conversion_failed",
                        IF cv.error_msg THEN "primary_error" ELSE "no_text")
        ELSE [wrote EXCEPT !.pc = "done", !.result = "returned"]

\* a mutant of Final: the failure never quotes markitdown's exception
FinalWithoutOriginal(cv) ==
    IF ~Truthy(cv.content) \/ StripLen(cv.content) < MinTextChars
    THEN ConvRaised(cv, "conversion_failed", "no_text")
    ELSE [cv EXCEPT !.pc = "done", !.result = "returned",
                    !.written = cv.output_path,
                    !.out_file = IF cv.output_path THEN cv.content ELSE @]

\* lines 83-95
Final(cv) ==
    IF ~Truthy(cv.content) \/ StripLen(cv.content) < MinTextChars
    THEN ConvRaised(cv, "conversion_failed",
                    IF cv.error_msg THEN "primary_error" ELSE "no_text")
    ELSE [cv EXCEPT !.pc = "done", !.result = "returned",
                    !.written = cv.output_path,
                    !.out_file = IF cv.output_path THEN cv.content ELSE @]

VPrecheck ==
    /\ conv.pc = "start"
    /\ conv' = Precheck(conv)
    /\ UNCHANGED <<clock, papers, disk, last, pc, req, out, track, fetch, pg, rk, lg, mcp_session_tokens>>

VPrimary(raises, text) ==
    /\ conv.pc = "primary"
    /\ conv' = Primary(conv, raises, text)
    /\ UNCHANGED <<clock, papers, disk, last, pc, req, out, track, fetch, pg, rk, lg, mcp_session_tokens>>

VFallback(raises, doc) ==
    /\ conv.pc = "fallback"
    /\ conv' = Fallback(conv, raises, doc)
    /\ UNCHANGED <<clock, papers, disk, last, pc, req, out, track, fetch, pg, rk, lg, mcp_session_tokens>>

VFinal ==
    /\ conv.pc = "final"
    /\ conv' = Final(conv)
    /\ UNCHANGED <<clock, papers, disk, last, pc, req, out, track, fetch, pg, rk, lg, mcp_session_tokens>>

InitConvert ==
    /\ CacheInit /\ ServerIdle /\ FetchIdle /\ PageIdle /\ RankIdle /\ LogIdle
    /\ \E f \in SourceFiles, mk \in BOOLEAN, mu \in BOOLEAN, o \in BOOLEAN,
          old \in OutputFiles :
         conv = [pc |-> "start", pdf |-> f, markitdown |-> mk, pymupdf |-> mu,
                 output_path |-> o, content |-> NoText, primary |-> NoText,
                 ran_primary |-> FALSE, primary_raised |-> FALSE, error_msg |-> FALSE,
                 tried_fallback |-> FALSE, written |-> FALSE, out_found |-> old,
                 out_file |-> old, result |-> "none", error |-> NoError]

NextConvert ==
    \/ VPrecheck
    \/ \E text \in PrimaryTexts : VPrimary(FALSE, text)
    \/ VPrimary(TRUE, NoText)
    \/ \E doc \in Docs : VFallback(FALSE, doc)
    \/ VFallback(TRUE, <<>>)
    \/ VFinal

SpecConvert == InitConvert /\ [][NextConvert]_vars

(***************************************************************************)
(* SpecPage: server.py, the text and the page of one get_paper_content     *)
(* call (and of _get_paper_content_internal, which repeats the lines).     *)
(* A text is its length in characters; content[a:b] is the pair of the     *)
(* positions it runs between.  The cache and the pipeline appear by their  *)
(* outcomes: the text the cache holds, and the text a conversion returns.  *)
(***************************************************************************)
\* "max_chars = max(1000, min(max_chars, 100000))"
MinPageChars == 1000
MaxPageChars == 100000

Min(a, b) == IF a < b THEN a ELSE b

Max(a, b) == IF a > b THEN a ELSE b

\* the lengths of the text file of a cached row; NoFile: no row, no path or no file
CachedLens == {NoFile, 0, 1, 999, 1000, 1001, 2500, 100001}

\* the lengths of the text convert may return: it raises under 50 stripped characters
FreshLens == {50, 1000, 2001}

\* the arguments of a call
PageArgs == -1..4
MaxCharsArgs == {-1, 0, 500, 1000, 1001, 100000, 100001}

\* line 264
ClampMaxChars(max_chars) == Max(MinPageChars, Min(max_chars, MaxPageChars))

\* line 265
ClampPageLow(page) == Max(1, page)

\* lines 337-338
TotalPages(total_chars, max_chars) ==
    Max(1, (total_chars + max_chars - 1) \div max_chars)

\* a mutant of ClampPage: the page is taken as it was asked for
ClampPageNone(page, total_pages) == page

\* lines 341-342
ClampPage(page, total_pages) == IF page > total_pages THEN total_pages ELSE page

\* line 345
StartIdx(page, max_chars) == (page - 1) * max_chars

\* a mutant of EndIdx: the page ends one character early
EndIdxShort(start_idx, max_chars, total_chars) ==
    Min(start_idx + max_chars - 1, total_chars)

\* line 346
EndIdx(start_idx, max_chars, total_chars) == Min(start_idx + max_chars, total_chars)

\* content[a:b] for 0 <= a: the characters from position a up to position b, both cut
\* at the end of the text; nothing when b <= a
Slice(total_chars, a, b) ==
    [from |-> Min(a, total_chars), to |-> Max(Min(a, total_chars), Min(b, total_chars))]

\* lines 335-347, for a page number that line 265 has made at least 1
Paginate(total_chars, page, max_chars) ==
    LET total_pages == TotalPages(total_chars, max_chars)
        p == ClampPage(page, total_pages)
        start_idx == StartIdx(p, max_chars)
    IN  [page |-> p, total_pages |-> total_pages,
         page_content |-> Slice(total_chars, start_idx,
                                EndIdx(start_idx, max_chars, total_chars))]

NoPage == [page |-> 0, total_pages |-> 0, page_content |-> [from |-> 0, to |-> 0]]

\* lines 264-265
PClamp ==
    /\ pg.pc = "start"
    /\ pg' = [pg EXCEPT !.pc = "read",
                        !.max_chars = ClampMaxChars(pg.arg_max_chars),
                        !.page = ClampPageLow(pg.arg_page)]
    /\ UNCHANGED <<clock, papers, disk, last, pc, req, out, track, fetch, conv, rk, lg, mcp_session_tokens>>

\* lines 268-290: the cached text is the content if the row has a text path, the
\* file exists and what is read from it is not empty
PRead ==
    /\ pg.pc = "read"
    /\ pg' = IF pg.cached # NoFile /\ pg.cached > 0
             THEN [pg EXCEPT !.pc = "paginate", !.content = pg.cached, !.source = "cache"]
             ELSE [pg EXCEPT !.pc = "miss"]
    /\ UNCHANGED <<clock, papers, disk, last, pc, req, out, track, fetch, conv, rk, lg, mcp_session_tokens>>

\* lines 292-333: the provider finds no paper, the download fails, the conversion
\* raises, or the conversion returns a text
PMiss(outcome, len) ==
    /\ pg.pc = "miss"
    /\ pg' = IF outcome = "fresh"
             THEN [pg EXCEPT !.pc = "paginate", !.content = len, !.source = "fresh"]
             ELSE [pg EXCEPT !.pc = "done", !.result = outcome]
    /\ UNCHANGED <<clock, papers, disk, last, pc, req, out, track, fetch, conv, rk, lg, mcp_session_tokens>>

\* lines 335-391
PPaginate ==
    /\ pg.pc = "paginate"
    /\ pg' = [pg EXCEPT !.pc = "done", !.result = "page",
                        !.shown = Paginate(pg.content, pg.page, pg.max_chars)]
    /\ UNCHANGED <<clock, papers, disk, last, pc, req, out, track, fetch, conv, rk, lg, mcp_session_tokens>>

InitPage ==
    /\ CacheInit /\ ServerIdle /\ FetchIdle /\ ConvertIdle /\ RankIdle /\ LogIdle
    /\ \E len \in CachedLens, p \in PageArgs, m \in MaxCharsArgs :
         pg = [pc |-> "start", cached |-> len, arg_page |-> p, arg_max_chars |-> m,
               page |-> p, max_chars |-> m, content |-> NoFile, source |-> "none",
               result |-> "none", shown |-> NoPage]

NextPage ==
    \/ PClamp
    \/ PRead
    \/ \E outcome \in {"not_found", "fetch_failed", "error"} : PMiss(outcome, 0)
    \/ \E len \in FreshLens : PMiss("fresh", len)
    \/ PPaginate

SpecPage == InitPage /\ [][NextPage]_vars

(***************************************************************************)
(* SpecRank: arxiv_search.py search and _smart_sort, called by             *)
(* search_papers of server.py.  A result of the provider is its            *)
(* publication age in days                                                 *)
(* at the time of the call; its relevance rank is its position.  Scores    *)
(* are kept as exact fractions; on the ages of Days and the ranks below    *)
(* MaxProvided + 1 the order of the fractions is the order of the floats.  *)
(***************************************************************************)
MaxProvided == 4
MaxSearchResults == 50
FetchFactor == 3
MaxFetchCount == 100
RankScale == 10
HalfLifeDays == 180
WeightScale == 10
RelevanceWeight == 6
RecencyWeight == 4

Days == {-1, 0, 40, 84, 400}
\* the counts asked for: around zero, around the count whose triple passes
\* MaxFetchCount, and around MaxSearchResults
Counts == (-1..3) \cup {33, 34, 50, 51}
SortPolicies == {"smart", "relevance", "submitted", "updated"}

\* a mutant of Prefix: papers[:n + 1]
PrefixInclusive(seq, n) == SubSeq(seq, 1, Min(Max(n + 1, 0), Len(seq)))

\* papers[:n] of Python: a negative n counts from the end
Prefix(seq, n) ==
    IF n >= 0 THEN SubSeq(seq, 1, Min(n, Len(seq)))
              ELSE SubSeq(seq, 1, Max(Len(seq) + n, 0))

\* a mutant of FetchCount: without the cap of line 123
FetchCountUncapped(n, sort_by) == IF sort_by = "smart" THEN n * FetchFactor ELSE n

\* fetch_count
FetchCount(n, sort_by) ==
    Min(IF sort_by = "smart" THEN n * FetchFactor ELSE n, MaxFetchCount)

\* client.results(search): at most max_results results; none for a negative
\* max_results; a max_results of 0 is no limit to the arxiv client
Provided(count) ==
    LET most == IF count < 0 THEN 0
                ELSE IF count = 0 THEN MaxProvided ELSE Min(count, MaxProvided)
    IN  UNION {[1..len -> Days] : len \in 0..most}

\* the loop over the results: _relevance_rank = idx, _published_date
Results(raw) == [k \in 1..Len(raw) |-> [rank |-> k - 1, days |-> raw[k]]]

\* _smart_score = 0.6 * 1 / (1 + rank * 0.1) + 0.4 * 1 / (1 + days_ago / 180)
\*              = 6 / (10 + rank) + 72 / (180 + days_ago),
\* as the fraction ScoreNum / ScoreDen
ScoreNum(p) ==
    ((RelevanceWeight * RankScale) \div WeightScale) * (HalfLifeDays + p.days)
        + ((RecencyWeight * HalfLifeDays) \div WeightScale) * (RankScale + p.rank)

ScoreDen(p) == (RankScale + p.rank) * (HalfLifeDays + p.days)

ScoreLess(p, q) == ScoreNum(p) * ScoreDen(q) < ScoreNum(q) * ScoreDen(p)

ScoreEqual(p, q) == ScoreNum(p) * ScoreDen(q) = ScoreNum(q) * ScoreDen(p)

\* a mutant of InsertByScore: the paper goes before those of equal score
InsertBeforeTies(sorted, p) ==
    LET k == Cardinality({j \in 1..Len(sorted) : ScoreLess(p, sorted[j])})
    IN  SubSeq(sorted, 1, k) \o <<p>> \o SubSeq(sorted, k + 1, Len(sorted))

\* one step of the stable descending sort: p, which follows every paper of sorted
\* in the input, goes after the papers whose score is not less than its own
InsertByScore(sorted, p) ==
    LET k == Cardinality({j \in 1..Len(sorted) : ~ScoreLess(sorted[j], p)})
    IN  SubSeq(sorted, 1, k) \o <<p>> \o SubSeq(sorted, k + 1, Len(sorted))

\* papers.sort(key = _smart_score, reverse = True)
RECURSIVE SortByScore(_)
SortByScore(ps) ==
    IF ps = <<>> THEN <<>>
    ELSE InsertByScore(SortByScore(SubSeq(ps, 1, Len(ps) - 1)), ps[Len(ps)])

_smart_sort(ps, n) == Prefix(SortByScore(ps), n)

\* ArxivSearcher.search, on the results the provider yields
search(n, sort_by, raw) ==
    IF sort_by = "smart" /\ Results(raw) # <<>>
    THEN _smart_sort(Results(raw), n)
    ELSE Prefix(Results(raw), n)

\* search_papers: max_results = min(max_results, 50), then search is called and
\* the request for fetch_count results goes to the provider
RCall(n, sort_by) ==
    /\ rk.pc = "idle"
    /\ rk' = [pc |-> "fetching", arg |-> n, max_results |-> Min(n, MaxSearchResults),
              sort_by |-> sort_by,
              count |-> FetchCount(Min(n, MaxSearchResults), sort_by),
              raw |-> <<>>, papers |-> <<>>, again |-> <<>>]
    /\ UNCHANGED <<clock, papers, disk, last, pc, req, out, track, fetch, conv, pg, lg, mcp_session_tokens>>

\* the provider yields its results and search returns
RReturn ==
    /\ rk.pc = "fetching"
    /\ \E raw \in Provided(rk.count) :
          rk' = [rk EXCEPT !.pc = "returned", !.raw = raw,
                           !.papers = search(rk.max_results, rk.sort_by, raw)]
    /\ UNCHANGED <<clock, papers, disk, last, pc, req, out, track, fetch, conv, pg, lg, mcp_session_tokens>>

\* the same call once more, at the same time, the provider yielding the same
RAgain ==
    /\ rk.pc = "returned"
    /\ rk' = [rk EXCEPT !.pc = "repeated",
                        !.again = search(rk.max_results, rk.sort_by, rk.raw)]
    /\ UNCHANGED <<clock, papers, disk, last, pc, req, out, track, fetch, conv, pg, lg, mcp_session_tokens>>

InitRank ==
    /\ CacheInit /\ ServerIdle /\ FetchIdle /\ ConvertIdle /\ PageIdle /\ LogIdle
    /\ rk = [pc |-> "idle"]

NextRank ==
    \/ \E n \in Counts, sort_by \in SortPolicies : RCall(n, sort_by)
    \/ RReturn
    \/ RAgain

SpecRank == InitRank /\ [][NextRank]_vars

(***************************************************************************)
(* SpecLog: api_logger.py.  server.py calls log from its HTTP middleware,  *)
(* which runs it to its end before the next request is served, so log      *)
(* calls do not interleave.  A row is its id and its type; lg.since is the *)
(* history of the rows inserted since the table was last emptied.          *)
(***************************************************************************)
\* max_records, scaled down from 1000
MaxRecords == 3
\* the number of log calls followed
MaxLogged == 6

LogTypes == {"api", "mcp"}

\* a mutant of CleanupOldRecords: ORDER BY id DESC
CleanupNewestRecords(rows) ==
    IF Len(rows) > MaxRecords THEN SubSeq(rows, 1, MaxRecords) ELSE rows

\* _cleanup_old_records: when COUNT(*) > MAX_RECORDS, the count - MAX_RECORDS rows
\* of lowest id are deleted
CleanupOldRecords(rows) ==
    IF Len(rows) > MaxRecords
    THEN SubSeq(rows, Len(rows) - MaxRecords + 1, Len(rows))
    ELSE rows

\* log: INSERT under the next AUTOINCREMENT id, commit, _cleanup_old_records; an
\* exception raised before the commit is logged and swallowed, nothing is stored
LLog(log_type, raises) ==
    /\ lg.pc = "on"
    /\ lg.calls < MaxLogged
    /\ lg' = IF raises
             THEN [lg EXCEPT !.calls = @ + 1, !.op = "log_failed"]
             ELSE LET row == [id |-> lg.seq + 1, type |-> log_type]
                  IN  [lg EXCEPT !.calls = @ + 1, !.op = "log",
                                 !.seq = @ + 1,
                                 !.rows = CleanupOldRecords(Append(@, row)),
                                 !.since = Append(@, row)]
    /\ UNCHANGED <<clock, papers, disk, last, pc, req, out, track, fetch, conv, pg, rk, mcp_session_tokens>>

\* clear_logs: DELETE FROM api_logs; the AUTOINCREMENT sequence goes on
LClearLogs ==
    /\ lg.pc = "on"
    /\ lg.rows # <<>>
    /\ lg' = [lg EXCEPT !.op = "clear_logs", !.rows = <<>>, !.since = <<>>]
    /\ UNCHANGED <<clock, papers, disk, last, pc, req, out, track, fetch, conv, pg, rk, mcp_session_tokens>>

InitLog ==
    /\ CacheInit /\ ServerIdle /\ FetchIdle /\ ConvertIdle /\ PageIdle /\ RankIdle
    /\ lg = [pc |-> "on", op |-> "none", rows |-> <<>>, seq |-> 0, calls |-> 0,
             since |-> <<>>]

NextLog ==
    \/ \E t \in LogTypes : LLog(t, FALSE)
    \/ \E t \in LogTypes : LLog(t, TRUE)
    \/ LClearLogs

SpecLog == InitLog /\ [][NextLog]_vars

(***************************************************************************)
(* Claims about PaperCache                                                 *)
(***************************************************************************)
\* C1: when a save or update_paths call has returned, the file_size of all rows sums
\* to at most max_size_bytes, or the table is empty.
C1_BudgetAfterMutation ==
    last.op \in {"save", "update_paths"} =>
        get_total_size(papers) <= MaxSizeBytes \/ papers = <<>>

\* a save or update_paths whose size sweep removed a row and left another
C1_Witness ==
    last.op \in {"save", "update_paths"} /\ last.sized # <<>> /\ papers # <<>>

\* C3 (as claimed): a save with metadata only, for an identifier whose row has a path
\* set, leaves pdf_path and markdown_path as they were and stores the file_size of the
\* files at those paths.
C3_SaveKeepsPaths ==
    [][\A i \in OneId, t \in Titles, bad \in RmFaults :
          (/\ CSave(i, t, NULL, NULL, bad)
           /\ RowPaths(RowOf(papers, i)) # {}
           /\ HasRow(papers', i))
          => /\ RowOf(papers', i).pdf_path = RowOf(papers, i).pdf_path
             /\ RowOf(papers', i).markdown_path = RowOf(papers, i).markdown_path
             /\ RowOf(papers', i).file_size =
                    SizeOf(disk, RowOf(papers, i).pdf_path)
                    + SizeOf(disk, RowOf(papers, i).markdown_path)]_vars

\* C4 (as claimed): while an identifier keeps its row, no call changes its created_at.
C4_CreatedAtImmutable ==
    [][\A i \in OneId :
          (HasRow(papers, i) /\ HasRow(papers', i))
          => RowOf(papers', i).created_at = RowOf(papers, i).created_at]_vars

\* C5 (as claimed): after update_paths with at least one path, and after save, the
\* row's file_size is the sum of the sizes of the files at its stored pdf_path and
\* markdown_path, and a null argument leaves the stored path as it was.
C5_SizeMatchesStoredPaths ==
    [][\A i \in OneId, bad \in RmFaults :
          \A pdf \in {NULL, get_pdf_path(i)}, md \in {NULL, get_markdown_path(i)} :
             (/\ \/ CUpdatePaths(i, pdf, md, bad) /\ <<pdf, md>> # <<NULL, NULL>>
                 \/ \E t \in Titles : CSave(i, t, pdf, md, bad)
              /\ HasRow(papers', i))
             => LET r == RowOf(papers', i)
                IN  r.file_size = SizeOf(disk', r.pdf_path) + SizeOf(disk', r.markdown_path)]_vars

\* C6: a cleanup's age sweep removes exactly the rows whose created_at is earlier than
\* now - max_age: a row created exactly at the cutoff goes only if the size sweep takes
\* it, a row created one tick earlier always goes, and by the age sweep.
C6_AgeBoundary ==
    [][last'.op \in {"cleanup", "update_paths", "save"} =>
          \A k \in 1..Len(papers) :
             LET r == papers[k]
             IN  (last'.op = "save" => r.arxiv_id # last'.id) =>
                   /\ r.created_at < clock - MaxAgeTicks
                        => /\ ~HasRow(papers', r.arxiv_id)
                           /\ \A j \in 1..Len(last'.sized) : last'.sized[j] # r.arxiv_id
                   /\ r.created_at >= clock - MaxAgeTicks
                        => \/ HasRow(papers', r.arxiv_id)
                           \/ \E j \in 1..Len(last'.sized) : last'.sized[j] = r.arxiv_id]_vars

\* a cleanup has kept a row created exactly at the cutoff while removing, in the same
\* sweep or before, nothing of it
C6_Witness ==
    /\ last.op = "cleanup"
    /\ \E k \in 1..Len(papers) : papers[k].created_at = clock - MaxAgeTicks


(***************************************************************************)
(* Claims about get_paper_content                                          *)
(***************************************************************************)
\* C2 (as claimed): when no call is in progress, every artifact file on disk is the
\* pdf_path or the markdown_path of some row.
C2_NoOrphanFiles ==
    (\A c \in Callers : pc[c] = "idle") =>
        \A p \in DiskPaths :
            Exists(disk, p) => \E k \in 1..Len(papers) : p \in RowPaths(papers[k])

\* C7 (as claimed): two calls for one identifier are never both between the start of
\* the download and the end of the extraction, and none downloads the PDF while
\* another writes or reads it.
C7_SingleFlight ==
    \A c \in Callers, d \in Callers :
        (c # d /\ req[c] = req[d]) =>
            /\ ~(/\ pc[c] \in {"download", "downloading", "convert", "converting", "writing"}
                 /\ pc[d] \in {"download", "downloading", "convert", "converting", "writing"})
            /\ ~(pc[c] = "downloading" /\ pc[d] \in {"downloading", "converting"})
            /\ ~(pc[c] = "writing" /\ pc[d] = "writing")

(***************************************************************************)
(* Claims about PDFConverter.convert                                       *)
(***************************************************************************)
\* C8 (as claimed): when markitdown returned a text whose stripped length is at most
\* 100 and pymupdf is installed, pymupdf has been tried by the time the text is judged.
C8_FallbackBelowFloor ==
    (/\ conv.pc \in {"final", "done"}
     /\ conv.ran_primary /\ ~conv.primary_raised
     /\ StripLen(conv.primary) <= 100
     /\ conv.pymupdf) => conv.tried_fallback

(***************************************************************************)
(* Claims about ArxivSearch.download_pdf                                   *)
(***************************************************************************)
\* C9: a file found at save_path that is at least 10000 bytes long, starts with %PDF
\* and has %%EOF in its last 128 bytes makes the call return True at once, without a
\* pass of the loop, without a download, the file as it was.  Any other file found
\* there is gone when the first pass starts, the call returns no result before a pass
\* was made, and a True result is about a file this call downloaded.
C9_ExistingFilePolicy ==
    /\ (/\ fetch.stale.exists /\ fetch.stale.size >= 10000
        /\ fetch.stale.head /\ fetch.stale.eof
        /\ fetch.pc # "entry") =>
            /\ fetch.result = "true"
            /\ fetch.tries = 0 /\ fetch.downloads = 0
            /\ fetch.file = fetch.stale
    /\ (/\ fetch.stale.exists
        /\ ~(fetch.stale.size >= 10000 /\ fetch.stale.head /\ fetch.stale.eof)) =>
            /\ fetch.tries >= 1 => ~fetch.dirty
            /\ fetch.result \in {"true", "false"} => fetch.tries >= 1
            /\ fetch.result = "true" => fetch.file.fresh

\* a 5000-byte file was found, removed, and a download then succeeded
C9_Witness ==
    /\ fetch.stale = File(5000, TRUE, TRUE, FALSE)
    /\ fetch.result = "true"
    /\ fetch.downloads >= 1
    /\ fetch.file.fresh

\* C10: the loop makes at most max_retries passes; every pass starts with no file at
\* save_path; the k-th wait is 2k seconds and waits happen only between passes; False
\* is returned only after max_retries failed passes, True after a pass whose file
\* passes the check and before any further pass; and a pass whose downloaded file
\* passes the check ends the call with True and the file in place.
C10_RetryDiscipline ==
    /\ [](/\ fetch.tries <= fetch.max_retries
          /\ fetch.downloads <= fetch.tries
          /\ ~fetch.dirty
          /\ \A k \in 1..Len(fetch.sleeps) : fetch.sleeps[k] = 2 * k
          /\ Len(fetch.sleeps) =
                IF fetch.pc = "loop" \/ fetch.tries = 0 THEN fetch.tries
                ELSE fetch.tries - 1
          /\ fetch.result = "false" =>
                fetch.tries = fetch.max_retries /\ fetch.failed = fetch.max_retries
          /\ (fetch.result = "true" /\ fetch.tries >= 1) =>
                /\ fetch.failed = fetch.tries - 1
                /\ fetch.file.fresh /\ fetch.file.size >= 10000
                /\ fetch.file.head /\ fetch.file.eof)
    /\ [][(/\ fetch.pc = "check" /\ fetch.how = "downloaded"
           /\ fetch.file.size >= 10000 /\ fetch.file.head /\ fetch.file.eof) =>
              (fetch'.result = "true" /\ fetch'.file = fetch.file)]_vars

\* three passes failed, with waits of 2 and 4 seconds between them
C10_Witness ==
    /\ fetch.result = "false"
    /\ fetch.max_retries = 3
    /\ fetch.downloads = 3
    /\ fetch.sleeps = <<2, 4>>


\* C11: when download_pdf returns False, no file exists at save_path.
C11_NoFileAfterFailure ==
    fetch.result = "false" => ~fetch.file.exists

\* False was returned after passes of which the last downloaded a file that failed
\* the verification
C11_Witness ==
    /\ fetch.result = "false"
    /\ fetch.how = "downloaded"
    /\ fetch.downloads >= 2
    /\ ~fetch.file.exists

\* C12 (as claimed): download_pdf never ends by raising.
C12_NeverRaises ==
    fetch.result # "raised"


(***************************************************************************)
(* Claims about the pages of get_paper_content                             *)
(***************************************************************************)
\* C13: for the text and the page size of a call that shows a page, the pages 1 to
\* total_pages follow each other without a gap or an overlap, the first starts at
\* the first character and the last ends at the last, so that their contents, put
\* together in order, are the text.
C13_PagesReconstructText ==
    pg.result = "page" =>
        LET n == TotalPages(pg.content, pg.max_chars)
            P(k) == Paginate(pg.content, k, pg.max_chars)
        IN  /\ pg.shown = P(pg.page)
            /\ P(1).page_content.from = 0
            /\ P(n).page_content.to = pg.content
            /\ \A k \in 1..n :
                  /\ P(k).page = k /\ P(k).total_pages = n
                  /\ P(k).page_content.from <= P(k).page_content.to
                  /\ k < n => P(k).page_content.to = P(k + 1).page_content.from

\* a text of 2500 characters shown in three pages
C13_Witness ==
    /\ pg.result = "page"
    /\ pg.content = 2500
    /\ pg.shown.total_pages = 3

\* C14: the page shown is within 1..total_pages; a page asked for above total_pages
\* shows the last page, which is not empty since the text is not; a page asked for
\* below 1 shows page 1; any other page is shown as asked for.
C14_PageClamped ==
    pg.result = "page" =>
        LET n == pg.shown.total_pages
        IN  /\ pg.shown.page \in 1..n
            /\ pg.arg_page > n =>
                  /\ pg.shown.page = n
                  /\ pg.shown.page_content.from = (n - 1) * pg.max_chars
                  /\ pg.shown.page_content.to = pg.content
                  /\ pg.content > 0 => pg.shown.page_content.from < pg.shown.page_content.to
            /\ pg.arg_page < 1 =>
                  pg.shown.page = 1 /\ pg.shown.page_content.from = 0
            /\ pg.arg_page \in 1..n => pg.shown.page = pg.arg_page

\* page 4 was asked for of a text of three pages
C14_Witness ==
    /\ pg.result = "page"
    /\ pg.arg_page = 4
    /\ pg.shown.total_pages = 3
    /\ pg.shown.page = 3

\* C15 (as claimed): a call that finds a readable text file in the cache shows a page
\* of that text with total_pages = ceil(len / max_chars), at least 1; an empty text
\* is shown as page 1 of 1 with empty content.
C15_TotalPagesIsCeiling ==
    (pg.pc = "done" /\ pg.cached # NoFile) =>
        /\ pg.result = "page"
        /\ pg.content = pg.cached
        /\ pg.shown.total_pages >= 1
        /\ pg.cached = 0 =>
              /\ pg.shown.total_pages = 1 /\ pg.shown.page = 1
              /\ pg.shown.page_content.from = pg.shown.page_content.to
        /\ pg.cached > 0 =>
              /\ pg.shown.total_pages * pg.max_chars >= pg.cached
              /\ (pg.shown.total_pages - 1) * pg.max_chars < pg.cached


(***************************************************************************)
(* Claims about the steps of get_paper_content                             *)
(***************************************************************************)
\* C16 (as claimed): no call of search_papers or get_paper_content ends by raising.
C16_NeverRaises ==
    \A c \in Callers : out[c] # "raised"

\* C17: a call checks the token exactly once, before anything else; a call whose
\* check returns False ends then and there with the authorization failure, and the
\* step changes no row (no last_accessed bump), no file, and calls nothing else.
C17_AuthOnceAndFirst ==
    /\ [](\A c \in Callers :
            track[c] # <<>> =>
                /\ track[c][1] = "verify_mcp_token"
                /\ \A k \in 2..Len(track[c]) : track[c][k] # "verify_mcp_token")
    /\ [][\A c \in Callers :
            (out[c] # "auth_failed" /\ out'[c] = "auth_failed") =>
                /\ pc[c] = "idle" /\ pc'[c] = "idle"
                /\ track'[c] = <<"verify_mcp_token">>
                /\ UNCHANGED <<papers, disk, last>>]_vars

\* a call was refused while the cache held the row it asked for, last read earlier
C17_Witness ==
    /\ out["c1"] = "auth_failed"
    /\ track["c1"] = <<"verify_mcp_token">>
    /\ HasRow(papers, req["c1"])
    /\ RowOf(papers, req["c1"]).last_accessed < clock

\* C18 (as claimed): a call that finds a row whose markdown_path names an existing
\* file returns that text as a cache hit at once: nothing is called but
\* paper_cache.get, no file changes, and the rows change only in the last_accessed
\* of that row.
C18_CacheHitFrame ==
    [][\A c \in Callers, i \in OneId :
          (/\ GStart(c, i, "valid")
           /\ HasRow(papers, i)
           /\ RowOf(papers, i).markdown_path # NULL
           /\ Exists(disk, RowOf(papers, i).markdown_path))
          => /\ out'[c] = "cache" /\ pc'[c] = "idle"
             /\ track'[c] = <<"verify_mcp_token", "get", "paginate">>
             /\ disk' = disk
             /\ Len(papers') = Len(papers)
             /\ \A k \in 1..Len(papers) :
                   papers'[k] = [papers[k] EXCEPT !.last_accessed = papers'[k].last_accessed]
                   /\ (papers[k].arxiv_id # i => papers'[k] = papers[k])]_vars

C20_MissOrderAndFetchFailure ==
    /\ [](\A c \in Callers :
            \/ track[c] = <<"verify_mcp_token", "get", "paginate">>
            \/ track[c] = <<"verify_mcp_token", "search">>
            \/ \E n \in 0..8 :
                 track[c] = SubSeq(<<"verify_mcp_token", "get", "get_paper", "save",
                                     "download_pdf", "convert", "update_paths",
                                     "paginate">>, 1, n))
    /\ [][\A c \in Callers :
            (pc[c] = "downloading" /\ out'[c] = "fetch_failed") =>
                /\ pc'[c] = "idle"
                /\ track'[c] = <<"verify_mcp_token", "get", "get_paper", "save",
                                 "download_pdf">>
                /\ HasRow(papers', req[c])
                /\ RowOf(papers', req[c]).pdf_path = NULL
                /\ RowOf(papers', req[c]).markdown_path = NULL
                /\ RowOf(papers', req[c]).file_size = 0]_vars


(***************************************************************************)
(* Claims about PaperCache, continued                                      *)
(***************************************************************************)
\* C21: three papers of 400,000 bytes each stored at one instant under a budget of
\* 1,000,000 bytes: nothing is evicted before the third has its size; the call that
\* gives the third its size evicts exactly one row, the one saved first; the rows
\* left sum to at most the budget.
C21_ThirdInsertEvictsFirst ==
    /\ get_total_size(papers) <= MaxSizeBytes
    /\ Cardinality(last.given) < 3 => last.evicted = <<>> /\ Len(papers) = Len(last.order)
    /\ Cardinality(last.given) = 3 =>
          /\ last.evicted = <<last.order[1]>>
          /\ last.sized = last.evicted
          /\ papers = <<RowOf(papers, last.order[2]), RowOf(papers, last.order[3])>>
          /\ HasRow(papers, last.order[2]) /\ HasRow(papers, last.order[3])
          /\ ~Exists(disk, get_pdf_path(last.order[1]))

\* the third paper got its size by update_paths, after the second, and the first went
C21_Witness ==
    /\ Cardinality(last.given) = 3
    /\ last.op = "update_paths"
    /\ last.order = << <<"2">>, <<"3">>, <<"1">> >>
    /\ last.id = <<"1">>
    /\ last.evicted = << <<"2">> >>
    /\ get_total_size(papers) = 2 * PdfSize


\* C22: delete of an identifier that has a row removes the files at both stored
\* paths and the row, so that get misses afterwards and neither file exists; delete
\* of an identifier without a row changes nothing.
C22_DeleteRemovesFilesAndRow ==
    [][\A i \in Ids, bad \in RmFaults :
          CDelete(i, bad) =>
             IF HasRow(papers, i)
             THEN /\ ~HasRow(papers', i)
                  /\ GetReturn(papers', clock', i) = NoRow
                  /\ \A p \in RowPaths(RowOf(papers, i)) : ~Exists(disk', p)
                  /\ \A p \in DOMAIN disk \ RowPaths(RowOf(papers, i)) : disk'[p] = disk[p]
                  /\ papers' = DeleteRows(papers, {i})
             ELSE papers' = papers /\ disk' = disk]_vars

\* C23: get on a hit changes last_accessed of that one row and nothing else (no other
\* field, no other row, no file, no sweep) and returns the row with the new
\* last_accessed; on a miss it returns nothing and changes nothing.
C23_GetFrame ==
    [][\A i \in Ids :
          CGet(i) =>
             /\ disk' = disk
             /\ clock' = clock
             /\ Len(papers') = Len(papers)
             /\ \A k \in 1..Len(papers) :
                   papers'[k] = IF papers[k].arxiv_id = i
                                THEN [papers[k] EXCEPT !.last_accessed = clock]
                                ELSE papers[k]
             /\ last'.sized = <<>>
             /\ last'.result = IF HasRow(papers, i) THEN RowOf(papers', i) ELSE NoRow
             /\ ~HasRow(papers, i) => papers' = papers]_vars

\* a hit after time has passed, next to another row that a sweep would have removed
\* and that keeps its older last_accessed
C23_Witness ==
    /\ last.op = "get"
    /\ HasRow(papers, last.id)
    /\ last.result = RowOf(papers, last.id)
    /\ last.result.last_accessed = clock
    /\ last.result.created_at < clock
    /\ \E j \in Ids \ {last.id} :
          /\ HasRow(papers, j)
          /\ IsExpired(RowOf(papers, j), clock)
          /\ RowOf(papers, j).last_accessed < clock


\* C24: after a call that ran the eviction sweep, a second cleanup at the same clock
\* value removes no row and no file, whichever removals fail; and a sweep leaves the
\* files of every row it keeps as they were.
C24_SweepIdempotent ==
    /\ [](last.op \in {"save", "cleanup"} =>
             \A bad \in RmFaults :
                LET again == cleanup(St(papers, disk), clock, bad)
                IN  again.db = papers /\ again.fs = disk /\ again.sized = <<>>)
    /\ [][last'.op \in {"save", "cleanup"} =>
             \A k \in 1..Len(papers') :
                \A p \in RowPaths(papers'[k]) : disk'[p] = disk[p]]_vars

\* a cleanup at the last clock value has kept a row with both its files, while of the
\* other identifier, which has no row, one file is on disk and the other is not
C24_Witness ==
    /\ last.op = "cleanup"
    /\ clock = MaxAgeTicks + MaxTicks
    /\ Len(papers) = 1
    /\ \A p \in RowPaths(papers[1]) : Exists(disk, p)
    /\ RowPaths(papers[1]) = PathsOf(papers[1].arxiv_id)
    /\ \E j \in Ids \ {papers[1].arxiv_id} :
          /\ Exists(disk, get_pdf_path(j))
          /\ ~Exists(disk, get_markdown_path(j))


(***************************************************************************)
(* Claims about the search ranker                                          *)
(***************************************************************************)
\* C25: under the smart policy the papers returned are in descending order of the
\* composite score, papers of equal score in the provider's order; they are the
\* first N of that order over all the provider's results; and the same call on the
\* same results at the same time returns the same sequence.
C25_SmartRanking ==
    (rk.pc \in {"returned", "repeated"} /\ rk.sort_by = "smart") =>
        LET ps  == rk.papers
            all == Results(rk.raw)
            kept == {ps[k].rank : k \in 1..Len(ps)}
        IN  /\ \A k \in 1..Len(ps) : ps[k] = all[ps[k].rank + 1]
            /\ \A j, k \in 1..Len(ps) :
                  j < k => /\ ~ScoreLess(ps[j], ps[k])
                           /\ ScoreEqual(ps[j], ps[k]) => ps[j].rank < ps[k].rank
            /\ Len(ps) = Min(Max(rk.max_results, 0), Len(all))
            /\ \A i \in 1..Len(all) : \A k \in 1..Len(ps) :
                  all[i].rank \notin kept =>
                      /\ ~ScoreLess(ps[k], all[i])
                      /\ ScoreEqual(ps[k], all[i]) => ps[k].rank < all[i].rank
            /\ rk.pc = "repeated" => rk.again = ps

\* the provider's third result overtakes the first two by its recency, these two
\* have equal scores and keep their order, and the fourth result is cut off
C25_Witness ==
    /\ rk.pc = "repeated"
    /\ rk.sort_by = "smart"
    /\ rk.max_results = 3
    /\ Len(rk.raw) = 4
    /\ Len(rk.papers) = 3
    /\ rk.papers[1].rank = 2
    /\ ScoreEqual(rk.papers[2], rk.papers[3])
    /\ rk.papers[2].rank < rk.papers[3].rank

\* C26: the papers returned are none when N is zero or negative, under every sort
\* policy, and when the provider yields no result.
C26_EmptyForNoCountOrNoResults ==
    (rk.pc \in {"returned", "repeated"} /\ (rk.arg <= 0 \/ rk.raw = <<>>)) =>
        rk.papers = <<>>

\* N is zero, the provider yields results all the same, and none is returned
C26_Witness ==
    /\ rk.pc = "returned"
    /\ rk.arg = 0
    /\ rk.sort_by = "relevance"
    /\ Len(rk.raw) = MaxProvided
    /\ rk.papers = <<>>


(***************************************************************************)
(* Claims about PDFConverter.convert, continued                            *)
(***************************************************************************)
\* C27: a call that passed the file checks returns a text exactly when the text the
\* engines left has a stripped length of at least 50, and then returns that text;
\* otherwise it raises the conversion failure, which quotes the message of
\* markitdown's exception when one was caught and the stock phrase when none was.
C27_TextFloorAndError ==
    (conv.pc = "done" /\ conv.error.kind \notin {"file_not_found", "file_damaged"}) =>
        /\ conv.result = "returned" <=> StripLen(conv.content) >= 50
        /\ conv.result = "returned" =>
              /\ conv.error = NoError
              /\ ~conv.tried_fallback => conv.content = conv.primary
              /\ conv.written = conv.output_path
              /\ conv.output_path => conv.out_file = conv.content
        /\ conv.result # "returned" =>
              /\ conv.result = "raised"
              /\ conv.error.kind = "conversion_failed"
              /\ conv.error.original =
                    IF conv.primary_raised THEN "primary_error" ELSE "no_text"
              /\ ~conv.written

\* markitdown raised, pymupdf read a text below the floor, and the failure quotes
\* markitdown's exception
C27_Witness ==
    /\ conv.pc = "done"
    /\ conv.result = "raised"
    /\ conv.primary_raised
    /\ conv.tried_fallback
    /\ StripLen(conv.content) > 0
    /\ StripLen(conv.content) < 50
    /\ conv.error = [kind |-> "conversion_failed", original |-> "primary_error"]


(***************************************************************************)
(* Claims about get_paper_content, continued                               *)
(***************************************************************************)
\* C28 (as claimed): whatever calls were made for one paper, with or without a
\* version suffix, the cache holds at most one row for it, and at most one PDF and
\* one text file.
C28_OneRecordPerPaper ==
    LET same == {i \in VersionIds : StripVersion(i) = <<"1">>}
    IN  /\ Cardinality({k \in 1..Len(papers) : papers[k].arxiv_id \in same}) <= 1
        /\ Cardinality({i \in same : Exists(disk, get_pdf_path(i))}) <= 1
        /\ Cardinality({i \in same : Exists(disk, get_markdown_path(i))}) <= 1


\* C29 (as claimed): a call with max_chars <= 0 ends with a validation failure, and
\* neither reads the cache, nor fetches, nor returns a page.
C29_NonPositivePageSizeRefused ==
    pg.pc # "off" /\ pg.arg_max_chars <= 0 =>
        /\ pg.pc \in {"start", "done"}
        /\ pg.pc = "done" => pg.result = "validation_failed"
        /\ pg.source = "none"
        /\ pg.shown = NoPage


C31_SizeSweepTakesLargest ==
    [][LET RECURSIVE LargestFirst(_, _)
           LargestFirst(db, ids) ==
               IF ids = <<>> THEN TRUE
               ELSE /\ HasRow(db, Head(ids))
                    /\ \E k \in 1..Len(db) :
                          /\ db[k].arxiv_id = Head(ids)
                          /\ \A j \in 1..Len(db) : db[j].file_size <= db[k].file_size
                          /\ \A j \in 1..(k - 1) : db[j].file_size < db[k].file_size
                    /\ LargestFirst(DeleteRows(db, {Head(ids)}), Tail(ids))
           stored == IF last'.op = "save"
                     THEN SaveRow(papers, disk, clock, last'.id, "t1",
                                  IF Exists(disk, get_pdf_path(last'.id))
                                  THEN get_pdf_path(last'.id) ELSE NULL,
                                  IF Exists(disk, get_markdown_path(last'.id))
                                  THEN get_markdown_path(last'.id) ELSE NULL)
                     ELSE papers
       IN  last'.op \in {"save", "cleanup"} =>
              LargestFirst(AgeSweep(St(stored, disk), clock, {}).db, last'.sized)]_vars

\* a save has made the size sweep remove one row, and the two rows left have the
\* sizes 1 and 2, so the row removed was the only one of size 3
C31_Witness ==
    /\ last.op = "save"
    /\ Len(last.sized) = 1
    /\ Len(papers) = 2
    /\ {papers[1].file_size, papers[2].file_size} = {MdSize, PdfSize}
    /\ last.sized[1] # last.id


\* C32: in a save or a cleanup, of the table as stored, the expired rows are removed
\* by the age sweep and never by the size sweep; when the rows that are not expired
\* fit the budget, exactly the expired rows and their files are removed; a row that
\* is not expired is removed only when the rows that are not expired exceed the budget.
C32_AgeBeforeSize ==
    [][LET stored == IF last'.op = "save"
                     THEN SaveRow(papers, disk, clock, last'.id, "t1",
                                  IF Exists(disk, get_pdf_path(last'.id))
                                  THEN get_pdf_path(last'.id) ELSE NULL,
                                  IF Exists(disk, get_markdown_path(last'.id))
                                  THEN get_markdown_path(last'.id) ELSE NULL)
                     ELSE papers
           fresh   == SelectSeq(stored, LAMBDA r : ~IsExpired(r, clock))
           expired == SelectSeq(stored, LAMBDA r : IsExpired(r, clock))
       IN  last'.op \in {"save", "cleanup"} =>
              /\ \A k \in 1..Len(expired) :
                    /\ ~HasRow(papers', expired[k].arxiv_id)
                    /\ \A j \in 1..Len(last'.sized) : last'.sized[j] # expired[k].arxiv_id
              /\ get_total_size(fresh) <= MaxSizeBytes =>
                    /\ papers' = fresh
                    /\ last'.sized = <<>>
                    /\ \A p \in DOMAIN disk :
                          disk'[p] = IF \E k \in 1..Len(expired) : p \in RowPaths(expired[k])
                                     THEN NoFile ELSE disk[p]
              /\ get_total_size(fresh) > MaxSizeBytes =>
                    /\ last'.sized # <<>>
                    /\ papers' = SelectSeq(fresh, LAMBDA r :
                                    \A j \in 1..Len(last'.sized) : last'.sized[j] # r.arxiv_id)]_vars

\* a save has found one expired row and two others that fill the budget exactly:
\* the expired row is gone, the two are kept, and no row was ever removed for size
C32_Witness ==
    /\ last.op = "save"
    /\ Len(last.order) = 3
    /\ last.evicted = <<>>
    /\ Len(papers) = 2
    /\ get_total_size(papers) = MaxSizeBytes
    /\ \E i \in FillIds : ~HasRow(papers, i) /\ \A p \in PathsOf(i) : ~Exists(disk, p)


(***************************************************************************)
(* Claims about the loop of the size sweep                                 *)
(***************************************************************************)
\* C33: the size sweep always terminates.  Each pass of its loop removes one row,
\* so the number of rows strictly decreases; the passes never outnumber the rows
\* the table held when cleanup was called; the loop is always left, and it is left
\* with the total within the budget or with no row; the rows left are those the
\* whole cleanup leaves.
C33_SizeSweepTerminates ==
    /\ [][LSizeStep => Len(papers') = Len(papers) - 1]_vars
    /\ [](last.iters <= Len(last.start))
    /\ (last.pc = "size") ~> (last.pc = "done")
    /\ [](last.pc = "done" =>
            /\ get_total_size(papers) <= MaxSizeBytes \/ papers = <<>>
            /\ papers = cleanup(St(last.start, disk), clock, {}).db)

\* the loop has run for as many passes as fit: three rows, two passes, then left
C33_Witness ==
    /\ last.pc = "done"
    /\ Len(last.start) = 3
    /\ last.iters = 2
    /\ Len(papers) = 1


(***************************************************************************)
(* Claims about failing file removals                                      *)
(***************************************************************************)
\* C34: a file removal that fails during a sweep or a delete is swallowed.  The
\* call completes; every row it selected is removed from the table, the row whose
\* file could not be removed included; every file of those rows is removed except
\* the failing one, which stays as it was; nothing else changes.  For a sweep the
\* selected rows are every expired row and then the rows the size sweep needs, so
\* that the total ends within the budget.
C34_FailingRemovalSwallowed ==
    [][\A bad \in RmFaults :
        LET Selected(db) == {k \in 1..Len(db) : ~HasRow(papers', db[k].arxiv_id)}
            Carried(db, gone) ==
                /\ papers' = DeleteRows(db, {db[k].arxiv_id : k \in gone})
                /\ \A p \in DOMAIN disk :
                      disk'[p] = IF p \in UNION {RowPaths(db[k]) : k \in gone} /\ p \notin bad
                                 THEN NoFile ELSE disk[p]
            Swept(db) ==
                /\ \A k \in 1..Len(db) : IsExpired(db[k], clock) => k \in Selected(db)
                /\ get_total_size(papers') <= MaxSizeBytes
                /\ Carried(db, Selected(db))
        IN  /\ FCleanup(bad) => last'.op = "cleanup" /\ Swept(papers)
            /\ \A i \in Ids :
                  /\ CSave(i, "t1", get_pdf_path(i), get_markdown_path(i), bad) =>
                        /\ last'.op = "save"
                        /\ Swept(SaveRow(papers, disk, clock, i, "t1",
                                         get_pdf_path(i), get_markdown_path(i)))
                  /\ FDelete(i, bad) /\ HasRow(papers, i) =>
                        /\ last'.op = "delete"
                        /\ ~HasRow(papers', i)
                        /\ Carried(papers, {k \in 1..Len(papers) : papers[k].arxiv_id = i})
      ]_vars

\* a sweep found two rows and the removal of a file of one of them failed: both
\* rows are gone and only the failing file is left
C34_Witness ==
    /\ last.op = "cleanup"
    /\ last.rows = 2
    /\ last.failed # {}
    /\ papers = <<>>
    /\ \A p \in DiskPaths : Exists(disk, p) <=> p \in last.failed


(***************************************************************************)
(* Claims about a paper fetched and asked for again                        *)
(***************************************************************************)
\* C35: after get_paper_content returns a freshly fetched paper, the table holds
\* a row for the identifier whose pdf_path and markdown_path are set and name
\* existing files, and the call that follows at once for the same identifier is
\* answered from the cache: it calls paper_cache.get and nothing else.
C35_FreshThenHit ==
    [][\A i \in FillIds, found \in BOOLEAN, got \in PdfSizes \cup {NoFile}, text \in BOOLEAN :
          AGetContent(i, found, got, text) =>
            /\ last'.result = "fresh" =>
                  /\ HasRow(papers', i)
                  /\ RowOf(papers', i).pdf_path # NULL
                  /\ RowOf(papers', i).markdown_path # NULL
                  /\ Exists(disk', RowOf(papers', i).pdf_path)
                  /\ Exists(disk', RowOf(papers', i).markdown_path)
            /\ last.result = "fresh" /\ last.id = i =>
                  /\ last'.result = "cache"
                  /\ last'.calls = <<"get">>
      ]_vars


(***************************************************************************)
(* Claims about the output file of PDFConverter.convert                    *)
(***************************************************************************)
\* C36: a call of convert that has not returned a text, and so every call that
\* raised (PDF missing, PDF under 1,000 bytes, no engine giving a text, text of
\* fewer than 50 stripped characters), has left output_path as it found it: no
\* file created, none modified.  The file is written only with a text that passed
\* the floor.
C36_FailureLeavesOutput ==
    /\ conv.result # "returned" =>
          /\ ~conv.written
          /\ conv.out_file = conv.out_found
    /\ conv.written =>
          /\ conv.result = "returned"
          /\ conv.output_path
          /\ StripLen(conv.content) >= MinTextChars
          /\ conv.out_file = conv.content

\* an output path was given and held an earlier text, both engines ran, and the
\* call raised for a text below the floor
C36_Witness ==
    /\ conv.pc = "done"
    /\ conv.result = "raised"
    /\ conv.error.kind = "conversion_failed"
    /\ conv.output_path
    /\ conv.ran_primary /\ conv.tried_fallback
    /\ Truthy(conv.content)
    /\ conv.out_found # NoText
    /\ conv.out_file = conv.out_found


(***************************************************************************)
(* Claims about the number of results asked for and returned               *)
(***************************************************************************)
\* C37: with N the count given to search, under the smart policy the provider is
\* asked for min(3N, 100) results and at most N of its results are returned; under
\* relevance, submitted and updated the papers returned are the first N results of
\* the provider, in the provider's order.  (For N below zero the provider yields
\* nothing and nothing is returned.)
C37_RequestedAndReturned ==
    rk.pc \in {"fetching", "returned", "repeated"} =>
        LET N   == rk.max_results
            all == Results(rk.raw)
        IN  /\ rk.sort_by = "smart" => rk.count = Min(3 * N, 100)
            /\ rk.pc # "fetching" =>
                  IF rk.sort_by = "smart"
                  THEN /\ Len(rk.papers) <= Max(N, 0)
                       /\ \A k \in 1..Len(rk.papers) :
                             \E j \in 1..Len(all) : rk.papers[k] = all[j]
                       /\ \A j, k \in 1..Len(rk.papers) :
                             j # k => rk.papers[j].rank # rk.papers[k].rank
                  ELSE rk.papers = SubSeq(all, 1, Min(Max(N, 0), Len(all)))

\* the smart policy with a count whose triple passes the cap: 100 results were
\* asked for, and what the provider yielded is returned
C37_Witness ==
    /\ rk.pc = "returned"
    /\ rk.sort_by = "smart"
    /\ rk.max_results = 34
    /\ rk.count = 100
    /\ Len(rk.raw) = MaxProvided
    /\ Len(rk.papers) = MaxProvided


(***************************************************************************)
(* Claims about the canonical paths                                        *)
(***************************************************************************)
\* C38: the canonical paths are injective in the identifier: two different
\* identifiers have different PDF paths and different text paths, the rows of two
\* identifiers never name the same file, and deleting the record of one
\* identifier leaves every file of every other identifier's row as it is.
C38_PathsInjective ==
    /\ [](\A i, j \in PathIds :
             i # j => /\ get_pdf_path(i) # get_pdf_path(j)
                      /\ get_markdown_path(i) # get_markdown_path(j))
    /\ [](\A j, k \in 1..Len(papers) :
             j # k => RowPaths(papers[j]) \cap RowPaths(papers[k]) = {})
    /\ [][\A i \in PathIds :
             CDelete(i, {}) =>
                \A k \in 1..Len(papers) :
                    papers[k].arxiv_id # i =>
                        \A p \in RowPaths(papers[k]) : disk'[p] = disk[p]]_vars


(***************************************************************************)
(* Claims about the token check with several sessions                      *)
(***************************************************************************)
\* C39: the decision of the token check depends only on the credential of the
\* calling session: the token its request presents or, when the request presents
\* none, the token the session presented before.  The call is authorized exactly
\* when that token is valid, whatever the other sessions presented.
C39_OwnCredentialDecides ==
    [][\A c \in Callers :
          HTool(c) =>
             LET own == IF req[c] # "none" THEN req[c]
                        ELSE SessionToken(mcp_session_tokens, c)
             IN  out'[c] = "authorized" <=> own = "good"]_vars

=============================================================================
